---- MODULE Spec2Model ----
(***************************************************************************)
(* NetX Secure TLS: the ClientKeyExchange processor                        *)
(*   _nx_secure_tls_process_client_key_exchange                            *)
(*   (nx_secure_tls_process_client_key_exchange.c)                         *)
(* and the session receive entry point                                     *)
(*   _nx_secure_tls_session_receive (nx_secure_tls_session_receive.c).     *)
(*                                                                         *)
(* Each function is a little state machine: one action per statement group *)
(* that ends in an external call or a return.  The crypto provider, the    *)
(* certificate store, the curve lookup, the PSK routine, the record layer  *)
(* and the handshake state machine are external: every result they can     *)
(* hand back is a nondeterministic choice.                                 *)
(*                                                                         *)
(* Build profile of the key-exchange processor: NX_SECURE_ENABLE_ECJPAKE_  *)
(* CIPHERSUITE, NX_SECURE_ENABLE_PSK_CIPHERSUITES, NX_SECURE_ENABLE_ECC_   *)
(* CIPHERSUITE and NX_SECURE_KEY_CLEAR are defined; NX_SECURE_TLS_SERVER_  *)
(* DISABLED is the variable server_disabled (FALSE under Spec, TRUE under  *)
(* SpecServerDisabled).  Session receive is built with secure              *)
(* renegotiation, client and server roles enabled.                         *)
(***************************************************************************)
EXTENDS Integers, Sequences, FiniteSets, TLC

(***************************************************************************)
(* Sizes.  The byte counts of the C build (48, 600, ...) are scaled down;  *)
(* what the model keeps is their order and the arithmetic done on them.    *)
(***************************************************************************)
\* NX_SECURE_TLS_RSA_PREMASTER_SIZE (48 in nx_secure_tls.h), scaled.
NX_SECURE_TLS_RSA_PREMASTER_SIZE == 1

\* sizeof(_nx_secure_client_padded_pre_master) (600), scaled: room for the
\* two marker bytes, the separator, the premaster and nothing more, so that
\* declared lengths below, inside and above the buffer all occur.
PaddedPreMasterSize == NX_SECURE_TLS_RSA_PREMASTER_SIZE + 3

\* sizeof(nx_secure_tls_pre_master_secret): at least the RSA premaster size.
PreMasterSecretCapacity == NX_SECURE_TLS_RSA_PREMASTER_SIZE + 1

\* The literal 32 stored by the ECJPAKE branch, scaled (32 <= 48 <= capacity).
EcjpakePreMasterSize == NX_SECURE_TLS_RSA_PREMASTER_SIZE

\* Longest ClientKeyExchange body delivered: a two-byte prefix in front of
\* a block as long as the scratch buffer.
MaxMessageLength == PaddedPreMasterSize + 2

\* Most consecutive post-handshake statuses the record layer hands back.
MaxPostHandshake == 3

\* The null pointer (a record, so that it compares with the structures).
NX_NULL == [null |-> TRUE]
NX_SUCCESS == "NX_SUCCESS"
NX_CRYPTO_SUCCESS == NX_SUCCESS
NX_CRYPTO_NOT_SUCCESSFUL == "NX_CRYPTO_NOT_SUCCESSFUL"
NX_CRYPTO_INVALID_KEY == "NX_CRYPTO_INVALID_KEY"
NX_NO_PACKET == "NX_NO_PACKET"
NX_SECURE_TLS_UNKNOWN_CIPHERSUITE == "NX_SECURE_TLS_UNKNOWN_CIPHERSUITE"
NX_SECURE_TLS_INCORRECT_MESSAGE_LENGTH == "NX_SECURE_TLS_INCORRECT_MESSAGE_LENGTH"
NX_SECURE_TLS_CERTIFICATE_NOT_FOUND == "NX_SECURE_TLS_CERTIFICATE_NOT_FOUND"
NX_SECURE_TLS_UNSUPPORTED_ECC_CURVE == "NX_SECURE_TLS_UNSUPPORTED_ECC_CURVE"
NX_SECURE_TLS_MISSING_CRYPTO_ROUTINE == "NX_SECURE_TLS_MISSING_CRYPTO_ROUTINE"
NX_SECURE_TLS_UNSUPPORTED_PUBLIC_CIPHER == "NX_SECURE_TLS_UNSUPPORTED_PUBLIC_CIPHER"
NX_SECURE_TLS_INVALID_STATE == "NX_SECURE_TLS_INVALID_STATE"
NX_SECURE_TLS_POST_HANDSHAKE_RECEIVED == "NX_SECURE_TLS_POST_HANDSHAKE_RECEIVED"
NX_SECURE_TLS_HANDSHAKE_FAILURE == "NX_SECURE_TLS_HANDSHAKE_FAILURE"

\* What a provider routine, the PSK routine or the curve lookup can return.
ProviderStatus == {NX_CRYPTO_SUCCESS, NX_CRYPTO_NOT_SUCCESSFUL, NX_CRYPTO_INVALID_KEY}

VARIABLES
    \* ---- session control block and build profile
    server_disabled,        \* NX_SECURE_TLS_SERVER_DISABLED is defined
    ciphersuite,            \* nx_secure_tls_session_ciphersuite, or NX_NULL
    active_certificate,     \* nx_secure_tls_credentials.nx_secure_tls_active_certificate
    certificate_store,      \* default local entry of nx_secure_tls_certificate_store
    ecdhe_data,             \* nx_secure_tls_new_key_material_data (ECDHE state)
    pre_master_secret,      \* nx_secure_tls_key_material.nx_secure_tls_pre_master_secret
    pre_master_secret_size, \* ...nx_secure_tls_pre_master_secret_size
    client_state,           \* nx_secure_tls_client_state
    server_state,           \* nx_secure_tls_server_state
    socket_type,            \* nx_secure_tls_socket_type
    renegotiation_handshake,\* nx_secure_tls_renegotiation_handshake
    \* ---- file-scope static of the key-exchange processor
    padded_pre_master,      \* _nx_secure_client_padded_pre_master
    \* ---- arguments and locals of the key-exchange processor
    packet_buffer, message_length,
    pc, length, status, local_certificate, private_key, curve_method,
    \* ---- what the key-exchange processor did (history)
    calls,                  \* provider calls made, in order, with arguments and result
    cert_lookups,           \* calls of _nx_secure_x509_local_device_certificate_get
    reads,                  \* offsets of packet_buffer the processor itself read
    scratch_reads,          \* indices of the scratch buffer the padding step read
    pad_result,             \* "none", "valid" or "invalid"
    entry,                  \* key material and scratch buffer at entry
    \* ---- arguments and locals of session receive, and its history
    wait_option, sr_pc, sr_status, local_initiated_renegotiation,
    sr_calls,               \* record fetches and handshake runs made, in order
    sr_entry,               \* session fields at entry
    \* ---- sessions whose threads are inside the RSA branch at the same time
    handshakes              \* per session: position, status, key material, history

sessionVars == <<server_disabled, ciphersuite, active_certificate, certificate_store,
                 ecdhe_data, socket_type>>
keInputs == <<packet_buffer, message_length, entry>>
srVars == <<server_state, renegotiation_handshake, wait_option, sr_pc, sr_status,
            local_initiated_renegotiation, sr_calls, sr_entry>>
keVars == <<pre_master_secret, pre_master_secret_size, padded_pre_master,
            pc, length, status, local_certificate, private_key, curve_method,
            calls, cert_lookups, reads, scratch_reads, pad_result>>
vars == <<sessionVars, keInputs, srVars, keVars, client_state, handshakes>>

(***************************************************************************)
(* Data                                                                    *)
(***************************************************************************)
\* Byte values the provider can leave in the scratch buffer: 0x00, a byte
\* that is neither marker, and 0x02.
ScratchBytes == {0, 1, 2}
\* NX_RAND() values that leave the do-while loop (non-zero bytes).
NonZeroBytes == {1, 2}
\* Bytes found in memory beyond the delivered message.
OobBytes == {0, 1}
\* The two bytes that follow the message in memory.
OobMemory == [0..1 -> OobBytes]

ZeroBuffer(n) == [i \in 0..(n - 1) |-> 0]

Min(a, b) == IF a < b THEN a ELSE b

\* An NX_CRYPTO_METHOD: its algorithm and which routine pointers are set.
Method(alg, init, op, cleanup) ==
    [nx_crypto_algorithm |-> alg, nx_crypto_init |-> init,
     nx_crypto_operation |-> op, nx_crypto_cleanup |-> cleanup]

MethodShapes == {<<TRUE, TRUE, TRUE>>, <<FALSE, TRUE, FALSE>>, <<TRUE, FALSE, TRUE>>}

Methods(alg) == {Method(alg, s[1], s[2], s[3]) : s \in MethodShapes}

FullMethod(alg) == Method(alg, TRUE, TRUE, TRUE)

\* An NX_SECURE_TLS_CIPHERSUITE_INFO entry.
Suite(id, auth, cipher) ==
    [nx_secure_tls_ciphersuite |-> id, nx_secure_tls_public_auth |-> auth,
     nx_secure_tls_public_cipher |-> cipher]

\* An NX_SECURE_X509_CERT: key type, public algorithm, whether the CRT primes
\* are present, the EC named curve.
Cert(name, keyType, pubAlg, p, q, curve) ==
    [name |-> name, nx_secure_x509_private_key_type |-> keyType,
     nx_secure_x509_public_algorithm |-> pubAlg,
     nx_secure_rsa_private_prime_p |-> p, nx_secure_rsa_private_prime_q |-> q,
     nx_secure_ec_named_curve |-> curve]

RsaCert(name, p, q) == Cert(name, "RSA", "RSA", p, q, "none")
OpaqueCert(name, keyType) == Cert(name, keyType, "RSA", FALSE, FALSE, "none")
EcCert(name) == Cert(name, "EC", "EC", FALSE, FALSE, "secp384r1")

\* A session setup: ciphersuite, active certificate, default store entry.
Setup(suite, active, store) == [suite |-> suite, active |-> active, store |-> store]

RsaAuth == FullMethod("RSA")

Setups ==
    {Setup(NX_NULL, NX_NULL, RsaCert("store", TRUE, TRUE))}
    \cup {Setup(Suite("OTHER", Method("ECJPAKE", TRUE, TRUE, c), FullMethod("NONE")),
                NX_NULL, NX_NULL) : c \in BOOLEAN}
    \cup {Setup(Suite("OTHER", FullMethod("PSK"), FullMethod("NONE")), NX_NULL, NX_NULL)}
    \cup {Setup(Suite("OTHER", FullMethod("ECDSA"), m), a, s) :
             m \in Methods("ECDH"),
             a \in {NX_NULL, EcCert("active")}, s \in {NX_NULL, EcCert("store")}}
    \cup {Setup(Suite("OTHER", RsaAuth, m), NX_NULL, NX_NULL) : m \in Methods("ECDHE")}
    \cup {Setup(Suite("OTHER", RsaAuth, FullMethod("RSA")), NX_NULL, s) :
             s \in {NX_NULL, RsaCert("store", TRUE, TRUE), RsaCert("store", TRUE, FALSE),
                    RsaCert("store", FALSE, FALSE), OpaqueCert("store", "USER_DEFINED"),
                    OpaqueCert("store", "HARDWARE"), EcCert("store")}}
    \cup {Setup(Suite("OTHER", RsaAuth, m), NX_NULL, RsaCert("store", FALSE, FALSE)) :
             m \in Methods("RSA")}
    \cup {Setup(Suite("OTHER", RsaAuth, FullMethod("RSA")),
                OpaqueCert("active", "USER_DEFINED"), RsaCert("store", TRUE, TRUE))}
    \cup {Setup(Suite(id, RsaAuth, FullMethod("DH")), NX_NULL, s) :
             id \in {"OTHER", "TLS_NULL_WITH_NULL_NULL"},
             s \in {NX_NULL, RsaCert("store", FALSE, FALSE)}}
    \cup {Setup(Suite("TLS_NULL_WITH_NULL_NULL", RsaAuth, FullMethod("RSA")),
                NX_NULL, RsaCert("store", FALSE, FALSE))}

\* Message bytes after the length prefix: non-zero and position-dependent.
Payload(i) == 1 + (i % 2)

MkMessage(n, b0, b1) ==
    [i \in 0..(n - 1) |-> IF i = 0 THEN b0 ELSE IF i = 1 THEN b1 ELSE Payload(i)]

Messages ==
    {MkMessage(n, b0, b1) : n \in 0..MaxMessageLength, b0 \in 0..2,
                            b1 \in 0..(MaxMessageLength + 1)}

MessageLength(m) == Cardinality(DOMAIN m)

\* packet_buffer[i]: a delivered byte, or whatever memory holds beyond them.
PacketByte(i, oob) ==
    IF i < message_length THEN packet_buffer[i]
    ELSE oob[Min(i - message_length, 1)]

\* A provider call: opcode, key handed in, input range (offset into the
\* delivered message and length), output buffer and capacity offered, the
\* status returned and the actual output size reported.
Call(op, key, inOff, inLen, out, outCap, st, actual) ==
    [op |-> op, key |-> key, in_off |-> inOff, in_len |-> inLen,
     out |-> out, out_cap |-> outCap, status |-> st, actual |-> actual]

\* Contents a provider can leave in an n-byte prefix of a secret buffer.
ProviderOutputs(buf, n) ==
    {buf} \cup {[i \in DOMAIN buf |-> IF i < n THEN b ELSE buf[i]] : b \in NonZeroBytes}

\* Contents a provider can leave in the scratch buffer.
ScratchContents == [0..(PaddedPreMasterSize - 1) -> ScratchBytes]

\* Key material at entry: that of a fresh session, or the premaster secret an
\* earlier RSA key exchange of the session left behind (renegotiation).
EntryKeyMaterial ==
    {[pre_master_secret |-> ZeroBuffer(PreMasterSecretCapacity),
      pre_master_secret_size |-> 0],
     [pre_master_secret |-> [i \in 0..(PreMasterSecretCapacity - 1) |-> 2],
      pre_master_secret_size |-> NX_SECURE_TLS_RSA_PREMASTER_SIZE]}

(***************************************************************************)
(* Initial states: a constructed session whose handshake has reached the   *)
(* ClientKeyExchange message.                                              *)
(***************************************************************************)
SessionReceiveIdle ==
    /\ server_state = "NX_SECURE_TLS_SERVER_STATE_SEND_HELLO"
    /\ socket_type = "NX_SECURE_TLS_SESSION_TYPE_SERVER"
    /\ renegotiation_handshake = FALSE
    /\ wait_option = "NX_NO_WAIT"
    /\ sr_pc = "not_called"
    /\ sr_status = "none"
    /\ local_initiated_renegotiation = FALSE
    /\ sr_calls = <<>>
    /\ sr_entry = "none"

InitProfile(disabled) ==
    /\ server_disabled = disabled
    /\ \E s \in Setups :
          /\ ciphersuite = s.suite
          /\ active_certificate = s.active
          /\ certificate_store = s.store
    /\ ecdhe_data = [nx_secure_tls_ecdhe_named_curve |-> "secp256r1",
                     nx_secure_tls_ecdhe_private_key |-> "ecdhe_private_key"]
    /\ \E k \in EntryKeyMaterial :
          /\ pre_master_secret = k.pre_master_secret
          /\ pre_master_secret_size = k.pre_master_secret_size
    /\ client_state = "NX_SECURE_TLS_CLIENT_STATE_IDLE"
    /\ padded_pre_master = ZeroBuffer(PaddedPreMasterSize)
    /\ packet_buffer \in Messages
    /\ message_length = MessageLength(packet_buffer)
    /\ pc = "start"
    /\ length = 0
    /\ status = "none"
    /\ local_certificate = NX_NULL
    /\ private_key = "none"
    /\ curve_method = NX_NULL
    /\ calls = <<>>
    /\ cert_lookups = 0
    /\ reads = {}
    /\ scratch_reads = {}
    /\ pad_result = "none"
    /\ entry = [pre_master_secret |-> pre_master_secret,
                pre_master_secret_size |-> pre_master_secret_size,
                padded_pre_master |-> padded_pre_master,
                client_state |-> client_state]
    /\ SessionReceiveIdle
    /\ handshakes = <<>>

Init == InitProfile(FALSE)

InitServerDisabled == InitProfile(TRUE)

(***************************************************************************)
(* _nx_secure_tls_process_client_key_exchange                              *)
(***************************************************************************)
frame == <<sessionVars, keInputs, srVars, handshakes>>

PublicAuth == ciphersuite.nx_secure_tls_public_auth
PublicCipher == ciphersuite.nx_secure_tls_public_cipher

\* return(st);
Return(st) ==
    /\ status' = st
    /\ pc' = "done"

\* KE_SelectBranch with the return of line 119 lost: an unresolved ciphersuite
\* falls through to the end of the function.
KE_SelectBranch_NoNullReturn ==
    /\ pc = "start"
    /\ IF ciphersuite = NX_NULL
       THEN /\ pc' = "finish"
            /\ UNCHANGED <<status, pre_master_secret_size>>
       ELSE IF PublicAuth.nx_crypto_algorithm = "ECJPAKE"
       THEN /\ pre_master_secret_size' = EcjpakePreMasterSize
            /\ pc' = "ecjpake_operation"
            /\ UNCHANGED status
       ELSE /\ pc' = IF PublicAuth.nx_crypto_algorithm = "PSK" THEN "psk"
                     ELSE IF PublicCipher.nx_crypto_algorithm \in {"ECDH", "ECDHE"}
                     THEN "ecdh_length"
                     ELSE "rsa_length"
            /\ UNCHANGED <<status, pre_master_secret_size>>
    /\ UNCHANGED <<frame, client_state, pre_master_secret, padded_pre_master, length,
                   local_certificate, private_key, curve_method, calls, cert_lookups,
                   reads, scratch_reads, pad_result>>

\* Lines 115-179: the ciphersuite check and the choice of branch.  The
\* ECJPAKE branch stores the premaster size before its provider call.
KE_SelectBranch ==
    /\ pc = "start"
    /\ IF ciphersuite = NX_NULL
       THEN /\ Return(NX_SECURE_TLS_UNKNOWN_CIPHERSUITE)
            /\ UNCHANGED pre_master_secret_size
       ELSE IF PublicAuth.nx_crypto_algorithm = "ECJPAKE"
       THEN /\ pre_master_secret_size' = EcjpakePreMasterSize
            /\ pc' = "ecjpake_operation"
            /\ UNCHANGED status
       ELSE /\ pc' = IF PublicAuth.nx_crypto_algorithm = "PSK" THEN "psk"
                     ELSE IF PublicCipher.nx_crypto_algorithm \in {"ECDH", "ECDHE"}
                     THEN "ecdh_length"
                     ELSE "rsa_length"
            /\ UNCHANGED <<status, pre_master_secret_size>>
    /\ UNCHANGED <<frame, client_state, pre_master_secret, padded_pre_master, length,
                   local_certificate, private_key, curve_method, calls, cert_lookups,
                   reads, scratch_reads, pad_result>>

\* Lines 132-149: NX_CRYPTO_ECJPAKE_CLIENT_KEY_EXCHANGE_PROCESS on the whole
\* message, output straight into the premaster secret.
KE_EcjpakeOperation ==
    /\ pc = "ecjpake_operation"
    /\ \E st \in ProviderStatus, out \in ProviderOutputs(pre_master_secret,
                                                        pre_master_secret_size) :
          /\ pre_master_secret' = out
          /\ calls' = Append(calls, Call("NX_CRYPTO_ECJPAKE_CLIENT_KEY_EXCHANGE_PROCESS",
                                         "none", 0, message_length, "pre_master_secret",
                                         pre_master_secret_size, st, 0))
          /\ IF st # NX_SUCCESS THEN Return(st)
             ELSE /\ pc' = IF PublicAuth.nx_crypto_cleanup THEN "ecjpake_cleanup"
                           ELSE "finish"
                  /\ UNCHANGED status
    /\ UNCHANGED <<frame, client_state, pre_master_secret_size, padded_pre_master, length,
                   local_certificate, private_key, curve_method, cert_lookups,
                   reads, scratch_reads, pad_result>>

\* PlainCall answering a provider failure with one fixed error code instead
\* of the provider's status.
PlainCall_FixedError(op, key, inOff, inLen, next) ==
    /\ \E st \in ProviderStatus :
          /\ calls' = Append(calls, Call(op, key, inOff, inLen, "none", 0, st, 0))
          /\ IF st # NX_CRYPTO_SUCCESS THEN Return(NX_CRYPTO_NOT_SUCCESSFUL)
             ELSE pc' = next /\ UNCHANGED status
    /\ UNCHANGED <<frame, client_state, pre_master_secret, pre_master_secret_size,
                   padded_pre_master, length, local_certificate, private_key,
                   curve_method, cert_lookups, reads, scratch_reads, pad_result>>

\* A provider call that touches no buffer of the session: status check only.
PlainCall(op, key, inOff, inLen, next) ==
    /\ \E st \in ProviderStatus :
          /\ calls' = Append(calls, Call(op, key, inOff, inLen, "none", 0, st, 0))
          /\ IF st # NX_CRYPTO_SUCCESS THEN Return(st)
             ELSE pc' = next /\ UNCHANGED status
    /\ UNCHANGED <<frame, client_state, pre_master_secret, pre_master_secret_size,
                   padded_pre_master, length, local_certificate, private_key,
                   curve_method, cert_lookups, reads, scratch_reads, pad_result>>

\* Lines 150-158.
KE_EcjpakeCleanup ==
    /\ pc = "ecjpake_cleanup"
    /\ PlainCall("nx_crypto_cleanup", "none", 0, 0, "finish")

\* Lines 166-174: _nx_secure_tls_generate_premaster_secret builds the PSK
\* premaster in the key material; on failure it has stored nothing.  The
\* routine is recorded with the provider calls.
KE_Psk ==
    /\ pc = "psk"
    /\ \E st \in ProviderStatus :
          /\ calls' = Append(calls, Call("_nx_secure_tls_generate_premaster_secret",
                                         "psk", 0, 0, "pre_master_secret",
                                         PreMasterSecretCapacity, st, 0))
          /\ IF st # NX_SUCCESS
             THEN /\ Return(st)
                  /\ UNCHANGED <<pre_master_secret, pre_master_secret_size>>
             ELSE /\ \E n \in 1..PreMasterSecretCapacity :
                        /\ pre_master_secret' \in ProviderOutputs(pre_master_secret, n)
                        /\ pre_master_secret_size' = n
                  /\ pc' = "finish"
                  /\ UNCHANGED status
    /\ UNCHANGED <<frame, client_state, padded_pre_master, length, local_certificate,
                   private_key, curve_method, cert_lookups, reads, scratch_reads,
                   pad_result>>

\* Lines 181-189: the one-byte public key length and its check.
KE_EcdhLength ==
    /\ pc = "ecdh_length"
    /\ \E oob \in OobMemory :
          LET len == PacketByte(0, oob) IN
          /\ length' = len
          /\ reads' = reads \cup {0}
          /\ IF len > message_length
             THEN Return(NX_SECURE_TLS_INCORRECT_MESSAGE_LENGTH)
             ELSE /\ pc' = IF PublicCipher.nx_crypto_algorithm = "ECDH"
                           THEN "ecdh_certificate" ELSE "find_curve"
                  /\ UNCHANGED status
    /\ UNCHANGED <<frame, client_state, pre_master_secret, pre_master_secret_size,
                   padded_pre_master, local_certificate, private_key, curve_method,
                   calls, cert_lookups, scratch_reads, pad_result>>

\* Lines 191-211: the active certificate, else the store's default entry.
KE_EcdhCertificate ==
    /\ pc = "ecdh_certificate"
    /\ LET cert == IF active_certificate # NX_NULL THEN active_certificate
                   ELSE certificate_store
       IN /\ local_certificate' = cert
          /\ cert_lookups' = IF active_certificate # NX_NULL THEN cert_lookups
                             ELSE cert_lookups + 1
          /\ IF cert = NX_NULL THEN Return(NX_SECURE_TLS_CERTIFICATE_NOT_FOUND)
             ELSE pc' = "find_curve" /\ UNCHANGED status
    /\ UNCHANGED <<frame, client_state, pre_master_secret, pre_master_secret_size,
                   padded_pre_master, length, private_key, curve_method, calls,
                   reads, scratch_reads, pad_result>>

\* KE_FindCurve taking the curve and the private key from the ephemeral
\* key-exchange state in the non-ephemeral case too.
KE_FindCurve_AlwaysEphemeral ==
    /\ pc = "find_curve"
    /\ LET curve == ecdhe_data.nx_secure_tls_ecdhe_named_curve
           key == ecdhe_data.nx_secure_tls_ecdhe_private_key
       IN \E st \in ProviderStatus, found \in BOOLEAN :
             IF st # NX_SUCCESS
             THEN /\ Return(st)
                  /\ UNCHANGED <<private_key, curve_method>>
             ELSE /\ curve_method' = IF found THEN [curve |-> curve] ELSE NX_NULL
                  /\ private_key' = key
                  /\ IF ~found THEN Return(NX_SECURE_TLS_UNSUPPORTED_ECC_CURVE)
                     ELSE IF ~PublicCipher.nx_crypto_operation
                     THEN Return(NX_SECURE_TLS_MISSING_CRYPTO_ROUTINE)
                     ELSE /\ pc' = IF PublicCipher.nx_crypto_init THEN "ecdh_init"
                                   ELSE "ecdh_curve_set"
                          /\ UNCHANGED status
    /\ UNCHANGED <<frame, client_state, pre_master_secret, pre_master_secret_size,
                   padded_pre_master, length, local_certificate, calls, cert_lookups,
                   reads, scratch_reads, pad_result>>

\* Lines 213-252: _nx_secure_tls_find_curve_method on the certificate's
\* curve (ECDH) or the ephemeral curve (ECDHE), the private key choice, the
\* null checks on the curve method and on the operate routine.
KE_FindCurve ==
    /\ pc = "find_curve"
    /\ LET ecdh == PublicCipher.nx_crypto_algorithm = "ECDH"
           curve == IF ecdh THEN local_certificate.nx_secure_ec_named_curve
                    ELSE ecdhe_data.nx_secure_tls_ecdhe_named_curve
           key == IF ecdh THEN local_certificate.name
                  ELSE ecdhe_data.nx_secure_tls_ecdhe_private_key
       IN \E st \in ProviderStatus, found \in BOOLEAN :
             IF st # NX_SUCCESS
             THEN /\ Return(st)
                  /\ UNCHANGED <<private_key, curve_method>>
             ELSE /\ curve_method' = IF found THEN [curve |-> curve] ELSE NX_NULL
                  /\ private_key' = key
                  /\ IF ~found THEN Return(NX_SECURE_TLS_UNSUPPORTED_ECC_CURVE)
                     ELSE IF ~PublicCipher.nx_crypto_operation
                     THEN Return(NX_SECURE_TLS_MISSING_CRYPTO_ROUTINE)
                     ELSE /\ pc' = IF PublicCipher.nx_crypto_init THEN "ecdh_init"
                                   ELSE "ecdh_curve_set"
                          /\ UNCHANGED status
    /\ UNCHANGED <<frame, client_state, pre_master_secret, pre_master_secret_size,
                   padded_pre_master, length, local_certificate, calls, cert_lookups,
                   reads, scratch_reads, pad_result>>

\* Lines 254-266.
KE_EcdhInit ==
    /\ pc = "ecdh_init"
    /\ PlainCall("nx_crypto_init", "none", 0, 0, "ecdh_curve_set")

\* KE_EcdhCurveSet going straight to the DH calculation: the key pair import
\* of lines 281-293 is left out.
KE_EcdhCurveSet_ImportSkipped ==
    /\ pc = "ecdh_curve_set"
    /\ PlainCall("NX_CRYPTO_EC_CURVE_SET", curve_method.curve, 0, 0,
              "ecdh_calculate")

\* Lines 268-278.
KE_EcdhCurveSet ==
    /\ pc = "ecdh_curve_set"
    /\ PlainCall("NX_CRYPTO_EC_CURVE_SET", curve_method.curve, 0, 0,
              "ecdh_key_pair_import")

\* Lines 280-293.
KE_EcdhKeyPairImport ==
    /\ pc = "ecdh_key_pair_import"
    /\ PlainCall("NX_CRYPTO_DH_KEY_PAIR_IMPORT", private_key, 0, 0,
              "ecdh_calculate")

\* KE_EcdhCalculate storing the buffer size instead of the size reported.
KE_EcdhCalculate_FixedSize ==
    /\ pc = "ecdh_calculate"
    /\ LET capacity == PreMasterSecretCapacity IN
       \E st \in ProviderStatus, actual \in 1..capacity :
          /\ pre_master_secret' \in ProviderOutputs(pre_master_secret, actual)
          /\ calls' = Append(calls, Call("NX_CRYPTO_DH_CALCULATE", "none", 1, length,
                                         "pre_master_secret", capacity, st,
                                         IF st = NX_CRYPTO_SUCCESS THEN actual ELSE 0))
          /\ IF st # NX_CRYPTO_SUCCESS
             THEN /\ Return(st)
                  /\ UNCHANGED pre_master_secret_size
             ELSE /\ pre_master_secret_size' = capacity
                  /\ pc' = IF PublicCipher.nx_crypto_cleanup THEN "ecdh_cleanup"
                           ELSE "finish"
                  /\ UNCHANGED status
    /\ UNCHANGED <<frame, client_state, padded_pre_master, length, local_certificate,
                   private_key, curve_method, cert_lookups, reads, scratch_reads,
                   pad_result>>

\* Lines 295-312: NX_CRYPTO_DH_CALCULATE on packet_buffer[1 .. length], the
\* extended output pointing at the premaster secret; the size the provider
\* reports becomes the premaster size.
KE_EcdhCalculate ==
    /\ pc = "ecdh_calculate"
    /\ LET capacity == PreMasterSecretCapacity IN
       \E st \in ProviderStatus, actual \in 1..capacity :
          /\ pre_master_secret' \in ProviderOutputs(pre_master_secret, actual)
          /\ calls' = Append(calls, Call("NX_CRYPTO_DH_CALCULATE", "none", 1, length,
                                         "pre_master_secret", capacity, st,
                                         IF st = NX_CRYPTO_SUCCESS THEN actual ELSE 0))
          /\ IF st # NX_CRYPTO_SUCCESS
             THEN /\ Return(st)
                  /\ UNCHANGED pre_master_secret_size
             ELSE /\ pre_master_secret_size' = actual
                  /\ pc' = IF PublicCipher.nx_crypto_cleanup THEN "ecdh_cleanup"
                           ELSE "finish"
                  /\ UNCHANGED status
    /\ UNCHANGED <<frame, client_state, padded_pre_master, length, local_certificate,
                   private_key, curve_method, cert_lookups, reads, scratch_reads,
                   pad_result>>

\* Lines 314-321.
KE_EcdhCleanup ==
    /\ pc = "ecdh_cleanup"
    /\ PlainCall("nx_crypto_cleanup", "none", 0, 0, "finish")

\* (USHORT)((packet_buffer[0] << 8) + (USHORT)packet_buffer[1]).
BigEndian16(b0, b1) == (b0 * 256 + b1) % 65536

\* Where the parsed-key sequence continues after the init step (lines
\* 419-427) and after the decrypt step (line 493).
AfterRsaDecrypt == IF PublicCipher.nx_crypto_cleanup THEN "rsa_cleanup" ELSE "rsa_padding"

AfterRsaInit(cert) ==
    IF ~PublicCipher.nx_crypto_operation THEN AfterRsaDecrypt
    ELSE IF cert.nx_secure_rsa_private_prime_p /\ cert.nx_secure_rsa_private_prime_q
    THEN "rsa_set_prime_p"
    ELSE "rsa_decrypt"

\* KE_RsaLength without the cap of lines 344-347: the NULL ciphersuite
\* records the declared length as the premaster size.
KE_RsaLength_NoTruncation ==
    /\ pc = "rsa_length"
    /\ \E oob \in OobMemory :
          LET len == BigEndian16(PacketByte(0, oob), PacketByte(1, oob))
          IN IF len > message_length
             THEN /\ Return(NX_SECURE_TLS_INCORRECT_MESSAGE_LENGTH)
                  /\ length' = len
                  /\ reads' = reads \cup {0, 1}
                  /\ UNCHANGED <<pre_master_secret, pre_master_secret_size>>
             ELSE IF ciphersuite.nx_secure_tls_ciphersuite = "TLS_NULL_WITH_NULL_NULL"
             THEN /\ length' = len
                  /\ pre_master_secret' =
                        [i \in DOMAIN pre_master_secret |->
                            IF i < len THEN PacketByte(2 + i, oob)
                            ELSE pre_master_secret[i]]
                  /\ pre_master_secret_size' = len
                  /\ reads' = reads \cup {0, 1} \cup {2 + i : i \in 0..(len - 1)}
                  /\ pc' = "rsa_certificate"
                  /\ UNCHANGED status
             ELSE /\ length' = len
                  /\ reads' = reads \cup {0, 1}
                  /\ pc' = "rsa_certificate"
                  /\ UNCHANGED <<status, pre_master_secret, pre_master_secret_size>>
    /\ UNCHANGED <<frame, client_state, padded_pre_master, local_certificate, private_key,
                   curve_method, calls, cert_lookups, scratch_reads, pad_result>>

\* Lines 327-350: the two-byte length, its check, and the NULL ciphersuite's
\* copy of the (truncated) plaintext into the premaster secret.
KE_RsaLength ==
    /\ pc = "rsa_length"
    /\ \E oob \in OobMemory :
          LET len == BigEndian16(PacketByte(0, oob), PacketByte(1, oob))
              capped == Min(len, PreMasterSecretCapacity)
          IN IF len > message_length
             THEN /\ Return(NX_SECURE_TLS_INCORRECT_MESSAGE_LENGTH)
                  /\ length' = len
                  /\ reads' = reads \cup {0, 1}
                  /\ UNCHANGED <<pre_master_secret, pre_master_secret_size>>
             ELSE IF ciphersuite.nx_secure_tls_ciphersuite = "TLS_NULL_WITH_NULL_NULL"
             THEN /\ length' = capped
                  /\ pre_master_secret' =
                        [i \in DOMAIN pre_master_secret |->
                            IF i < capped THEN PacketByte(2 + i, oob)
                            ELSE pre_master_secret[i]]
                  /\ pre_master_secret_size' = capped
                  /\ reads' = reads \cup {0, 1} \cup {2 + i : i \in 0..(capped - 1)}
                  /\ pc' = "rsa_certificate"
                  /\ UNCHANGED status
             ELSE /\ length' = len
                  /\ reads' = reads \cup {0, 1}
                  /\ pc' = "rsa_certificate"
                  /\ UNCHANGED <<status, pre_master_secret, pre_master_secret_size>>
    /\ UNCHANGED <<frame, client_state, padded_pre_master, local_certificate, private_key,
                   curve_method, calls, cert_lookups, scratch_reads, pad_result>>

\* Lines 352-378, 403, 419-427: the store's default certificate, the key
\* type, the RSA test, and the first step of the chosen decrypt sequence.
KE_RsaCertificate ==
    /\ pc = "rsa_certificate"
    /\ cert_lookups' = cert_lookups + 1
    /\ LET cert == certificate_store
           user_defined_key ==
               cert.nx_secure_x509_private_key_type \in {"USER_DEFINED", "HARDWARE"}
       IN IF cert = NX_NULL
          THEN /\ Return(NX_SECURE_TLS_CERTIFICATE_NOT_FOUND)
               /\ UNCHANGED local_certificate
          ELSE /\ local_certificate' = cert
               /\ IF PublicCipher.nx_crypto_algorithm = "RSA"
                     /\ cert.nx_secure_x509_public_algorithm = "RSA"
                  THEN /\ pc' = IF user_defined_key THEN "rsa_user_operation"
                                ELSE IF PublicCipher.nx_crypto_init THEN "rsa_init"
                                ELSE AfterRsaInit(cert)
                       /\ UNCHANGED status
                  ELSE Return(NX_SECURE_TLS_UNSUPPORTED_PUBLIC_CIPHER)
    /\ UNCHANGED <<frame, client_state, pre_master_secret, pre_master_secret_size,
                   padded_pre_master, length, private_key, curve_method, calls,
                   reads, scratch_reads, pad_result>>

\* A provider call whose output buffer is the scratch buffer: whatever its
\* status, the provider may have written the buffer.
ScratchCall(op, key, next) ==
    /\ \E st \in ProviderStatus, block \in ScratchContents :
          /\ padded_pre_master' = block
          /\ calls' = Append(calls, Call(op, key, 2, length, "padded_pre_master",
                                         PaddedPreMasterSize, st, 0))
          /\ IF st # NX_CRYPTO_SUCCESS THEN Return(st)
             ELSE pc' = next /\ UNCHANGED status
    /\ UNCHANGED <<frame, client_state, pre_master_secret, pre_master_secret_size,
                   length, local_certificate, private_key, curve_method, cert_lookups,
                   reads, scratch_reads, pad_result>>

\* KE_RsaUserOperation followed by the cleanup of the parsed-key sequence.
KE_RsaUserOperation_ThenCleanup ==
    /\ pc = "rsa_user_operation"
    /\ ScratchCall(local_certificate.nx_secure_x509_private_key_type,
                "user_key", AfterRsaDecrypt)

\* Lines 378-399: an opaque key goes to the provider in one operate call,
\* the key type as opcode.
KE_RsaUserOperation ==
    /\ pc = "rsa_user_operation"
    /\ ScratchCall(local_certificate.nx_secure_x509_private_key_type,
                "user_key", "rsa_padding")

\* Lines 403-417.
KE_RsaInit ==
    /\ pc = "rsa_init"
    /\ PlainCall("nx_crypto_init", "rsa_public_modulus", 0, 0,
              AfterRsaInit(local_certificate))

\* Lines 430-447.
KE_RsaSetPrimeP ==
    /\ pc = "rsa_set_prime_p"
    /\ PlainCall("NX_CRYPTO_SET_PRIME_P", "none", 0, 0, "rsa_set_prime_q")

\* Lines 449-466.
KE_RsaSetPrimeQ ==
    /\ pc = "rsa_set_prime_q"
    /\ PlainCall("NX_CRYPTO_SET_PRIME_Q", "none", 0, 0, "rsa_decrypt")

\* Lines 470-489.
KE_RsaDecrypt ==
    /\ pc = "rsa_decrypt"
    /\ ScratchCall("NX_CRYPTO_DECRYPT", "rsa_private_exponent", AfterRsaDecrypt)

\* Lines 493-505: the cleanup; its failure path clears the scratch buffer.
KE_RsaCleanup ==
    /\ pc = "rsa_cleanup"
    /\ \E st \in ProviderStatus :
          /\ calls' = Append(calls, Call("nx_crypto_cleanup", "none", 0, 0, "none", 0, st, 0))
          /\ IF st # NX_CRYPTO_SUCCESS
             THEN /\ padded_pre_master' = ZeroBuffer(PaddedPreMasterSize)
                  /\ Return(st)
             ELSE /\ pc' = "rsa_padding"
                  /\ UNCHANGED <<status, padded_pre_master>>
    /\ UNCHANGED <<frame, client_state, pre_master_secret, pre_master_secret_size,
                   length, local_certificate, private_key, curve_method, cert_lookups,
                   reads, scratch_reads, pad_result>>

\* _nx_secure_client_padded_pre_master[i]: a byte of the buffer, or whatever
\* memory holds at an index outside it.
ScratchByte(i, outside) ==
    IF i \in DOMAIN padded_pre_master THEN padded_pre_master[i] ELSE outside[i]

\* The indices the padding step touches, for the declared length.
SeparatorIndex == length - NX_SECURE_TLS_RSA_PREMASTER_SIZE - 1
SegmentIndex(i) == length - NX_SECURE_TLS_RSA_PREMASTER_SIZE + i
PaddingIndices ==
    {0, 1, SeparatorIndex} \cup {SegmentIndex(i) : i \in 0..(NX_SECURE_TLS_RSA_PREMASTER_SIZE - 1)}

\* Lines 510-512: the three-byte PKCS#1 test, read left to right.
PaddingValid(outside) ==
    /\ ScratchByte(0, outside) = 0
    /\ ScratchByte(1, outside) = 2
    /\ ScratchByte(SeparatorIndex, outside) = 0

\* KE_RsaPadding without the do-while of lines 526-529: a random byte may be 0.
KE_RsaPadding_RandMayBeZero ==
    /\ pc = "rsa_padding"
    /\ \E outside \in [PaddingIndices \ DOMAIN padded_pre_master -> ScratchBytes],
          rand \in [0..(NX_SECURE_TLS_RSA_PREMASTER_SIZE - 1) -> ScratchBytes] :
          LET valid == PaddingValid(outside)
          IN /\ pre_master_secret' =
                   [i \in DOMAIN pre_master_secret |->
                       IF i >= NX_SECURE_TLS_RSA_PREMASTER_SIZE THEN pre_master_secret[i]
                       ELSE IF valid THEN ScratchByte(SegmentIndex(i), outside)
                       ELSE rand[i]]
             /\ pad_result' = IF valid THEN "valid" ELSE "invalid"
    /\ pre_master_secret_size' = NX_SECURE_TLS_RSA_PREMASTER_SIZE
    /\ pc' = "finish"
    /\ UNCHANGED <<frame, client_state, padded_pre_master, length, status,
                   local_certificate, private_key, curve_method, calls, cert_lookups,
                   reads, scratch_reads>>

\* KE_RsaPadding answering invalid padding with an error return (the padding
\* oracle the random premaster exists to avoid).
KE_RsaPadding_ErrorOnInvalid ==
    /\ pc = "rsa_padding"
    /\ \E outside \in [PaddingIndices \ DOMAIN padded_pre_master -> ScratchBytes] :
          LET valid == PaddingValid(outside)
          IN /\ pad_result' = IF valid THEN "valid" ELSE "invalid"
             /\ IF valid
                THEN /\ pre_master_secret' =
                           [i \in DOMAIN pre_master_secret |->
                               IF i >= NX_SECURE_TLS_RSA_PREMASTER_SIZE
                               THEN pre_master_secret[i]
                               ELSE ScratchByte(SegmentIndex(i), outside)]
                     /\ pre_master_secret_size' = NX_SECURE_TLS_RSA_PREMASTER_SIZE
                     /\ pc' = "finish"
                     /\ UNCHANGED status
                ELSE /\ Return(NX_SECURE_TLS_INCORRECT_MESSAGE_LENGTH)
                     /\ UNCHANGED <<pre_master_secret, pre_master_secret_size>>
    /\ UNCHANGED <<frame, client_state, padded_pre_master, length,
                   local_certificate, private_key, curve_method, calls, cert_lookups,
                   reads, scratch_reads>>

\* Lines 508-541: valid padding copies the last RSA-premaster-size bytes of
\* the block; invalid padding stores random non-zero bytes; either way the
\* premaster size becomes the RSA premaster size.
KE_RsaPadding ==
    /\ pc = "rsa_padding"
    /\ \E outside \in [PaddingIndices \ DOMAIN padded_pre_master -> ScratchBytes],
          rand \in [0..(NX_SECURE_TLS_RSA_PREMASTER_SIZE - 1) -> NonZeroBytes] :
          LET valid == PaddingValid(outside)
              checked == IF ScratchByte(0, outside) # 0 THEN {0}
                         ELSE IF ScratchByte(1, outside) # 2 THEN {0, 1}
                         ELSE {0, 1, SeparatorIndex}
          IN /\ pre_master_secret' =
                   [i \in DOMAIN pre_master_secret |->
                       IF i >= NX_SECURE_TLS_RSA_PREMASTER_SIZE THEN pre_master_secret[i]
                       ELSE IF valid THEN ScratchByte(SegmentIndex(i), outside)
                       ELSE rand[i]]
             /\ pad_result' = IF valid THEN "valid" ELSE "invalid"
             /\ scratch_reads' =
                   IF valid
                   THEN checked \cup {SegmentIndex(i) :
                                         i \in 0..(NX_SECURE_TLS_RSA_PREMASTER_SIZE - 1)}
                   ELSE checked
    /\ pre_master_secret_size' = NX_SECURE_TLS_RSA_PREMASTER_SIZE
    /\ pc' = "finish"
    /\ UNCHANGED <<frame, client_state, padded_pre_master, length, status,
                   local_certificate, private_key, curve_method, calls, cert_lookups, reads>>

\* KE_Finish without the assignment of line 556: the invalid-state error is
\* returned with the client state left alone.
KE_Finish_ClientStateKept ==
    /\ pc = "finish"
    /\ padded_pre_master' = ZeroBuffer(PaddedPreMasterSize)
    /\ IF server_disabled
       THEN Return(NX_SECURE_TLS_INVALID_STATE)
       ELSE Return(NX_SUCCESS)
    /\ UNCHANGED <<frame, client_state, pre_master_secret, pre_master_secret_size, length,
                   local_certificate, private_key, curve_method, calls, cert_lookups,
                   reads, scratch_reads, pad_result>>

\* KE_Finish with the #ifdef of line 554 lost: the session is marked errored
\* and the call fails in every build.
KE_Finish_AlwaysServerDisabled ==
    /\ pc = "finish"
    /\ padded_pre_master' = ZeroBuffer(PaddedPreMasterSize)
    /\ client_state' = "NX_SECURE_TLS_CLIENT_STATE_ERROR"
    /\ Return(NX_SECURE_TLS_INVALID_STATE)
    /\ UNCHANGED <<frame, pre_master_secret, pre_master_secret_size, length,
                   local_certificate, private_key, curve_method, calls, cert_lookups,
                   reads, scratch_reads, pad_result>>

\* Lines 550-560: the scratch buffer is cleared; a build without server
\* support marks the session errored and fails.
KE_Finish ==
    /\ pc = "finish"
    /\ padded_pre_master' = ZeroBuffer(PaddedPreMasterSize)
    /\ IF server_disabled
       THEN /\ client_state' = "NX_SECURE_TLS_CLIENT_STATE_ERROR"
            /\ Return(NX_SECURE_TLS_INVALID_STATE)
       ELSE /\ Return(NX_SUCCESS)
            /\ UNCHANGED client_state
    /\ UNCHANGED <<frame, pre_master_secret, pre_master_secret_size, length,
                   local_certificate, private_key, curve_method, calls, cert_lookups,
                   reads, scratch_reads, pad_result>>

Next ==
    \/ KE_SelectBranch
    \/ KE_EcjpakeOperation
    \/ KE_EcjpakeCleanup
    \/ KE_Psk
    \/ KE_EcdhLength
    \/ KE_EcdhCertificate
    \/ KE_FindCurve
    \/ KE_EcdhInit
    \/ KE_EcdhCurveSet
    \/ KE_EcdhKeyPairImport
    \/ KE_EcdhCalculate
    \/ KE_EcdhCleanup
    \/ KE_RsaLength
    \/ KE_RsaCertificate
    \/ KE_RsaUserOperation
    \/ KE_RsaInit
    \/ KE_RsaSetPrimeP
    \/ KE_RsaSetPrimeQ
    \/ KE_RsaDecrypt
    \/ KE_RsaCleanup
    \/ KE_RsaPadding
    \/ KE_Finish

Spec == Init /\ [][Next]_vars

SpecServerDisabled == InitServerDisabled /\ [][Next]_vars

(***************************************************************************)
(* _nx_secure_tls_session_receive                                          *)
(***************************************************************************)
ClientStates == {"NX_SECURE_TLS_CLIENT_STATE_IDLE",
                 "NX_SECURE_TLS_CLIENT_STATE_RENEGOTIATING",
                 "NX_SECURE_TLS_CLIENT_STATE_HANDSHAKE_FINISHED"}
ServerStates == {"NX_SECURE_TLS_SERVER_STATE_HELLO_REQUEST",
                 "NX_SECURE_TLS_SERVER_STATE_HANDSHAKE_FINISHED"}
SocketTypes == {"NX_SECURE_TLS_SESSION_TYPE_CLIENT", "NX_SECURE_TLS_SESSION_TYPE_SERVER"}
WaitOptions == {"NX_NO_WAIT", "NX_WAIT_FOREVER"}

\* What _nx_secure_tls_session_receive_records can return.
RecordStatus == {NX_SUCCESS, NX_SECURE_TLS_POST_HANDSHAKE_RECEIVED, NX_NO_PACKET}
\* What _nx_secure_tls_handshake_process can return.
HandshakeStatus == {NX_SUCCESS, NX_SECURE_TLS_HANDSHAKE_FAILURE, NX_NO_PACKET}

KeyExchangeIdle ==
    /\ server_disabled = FALSE
    /\ ciphersuite = NX_NULL
    /\ active_certificate = NX_NULL
    /\ certificate_store = NX_NULL
    /\ ecdhe_data = NX_NULL
    /\ pre_master_secret = ZeroBuffer(PreMasterSecretCapacity)
    /\ pre_master_secret_size = 0
    /\ padded_pre_master = ZeroBuffer(PaddedPreMasterSize)
    /\ packet_buffer = MkMessage(0, 0, 0)
    /\ message_length = 0
    /\ pc = "not_called"
    /\ length = 0
    /\ status = "none"
    /\ local_certificate = NX_NULL
    /\ private_key = "none"
    /\ curve_method = NX_NULL
    /\ calls = <<>>
    /\ cert_lookups = 0
    /\ reads = {}
    /\ scratch_reads = {}
    /\ pad_result = "none"
    /\ entry = "none"

InitReceive ==
    /\ KeyExchangeIdle
    /\ handshakes = <<>>
    /\ socket_type \in SocketTypes
    /\ client_state \in ClientStates
    /\ server_state \in ServerStates
    /\ renegotiation_handshake \in BOOLEAN
    /\ wait_option \in WaitOptions
    /\ sr_pc = "start"
    /\ sr_status = "none"
    /\ local_initiated_renegotiation = FALSE
    /\ sr_calls = <<>>
    /\ sr_entry = [socket_type |-> socket_type, client_state |-> client_state,
                   server_state |-> server_state,
                   renegotiation_handshake |-> renegotiation_handshake]

srFrame == <<sessionVars, keInputs, keVars, wait_option, sr_entry, handshakes>>

\* A record fetch or a handshake run: the function called, the wait option
\* handed to it, the renegotiation flag when it started and when it returned,
\* the status it returned.
SrCall(fn, wait, before, after, st) ==
    [fn |-> fn, wait |-> wait, flag_before |-> before, flag_after |-> after,
     status |-> st]

PostHandshakeCount ==
    Cardinality({i \in DOMAIN sr_calls :
                    sr_calls[i].status = NX_SECURE_TLS_POST_HANDSHAKE_RECEIVED})

\* The statuses the record layer still hands back (the run of post-handshake
\* messages is bounded).
FetchStatus ==
    IF PostHandshakeCount < MaxPostHandshake THEN RecordStatus
    ELSE RecordStatus \ {NX_SECURE_TLS_POST_HANDSHAKE_RECEIVED}

\* return(status);
SrReturn(st) ==
    /\ sr_status' = st
    /\ sr_pc' = "done"

\* ReceiveRecords polling without waiting on every fetch after the first:
\* the caller's wait option reaches the first fetch only.
ReceiveRecords_NoWaitAfterFirst(st) ==
    /\ renegotiation_handshake' \in {renegotiation_handshake, TRUE}
    /\ sr_calls' = Append(sr_calls, SrCall("receive_records",
                                           IF sr_calls = <<>> THEN wait_option
                                           ELSE "NX_NO_WAIT",
                                           renegotiation_handshake,
                                           renegotiation_handshake', st))
    /\ client_state' \in ClientStates
    /\ server_state' \in ServerStates

\* _nx_secure_tls_session_receive_records(tls_session, packet_ptr_ptr,
\* wait_option): it returns a status; processing records may raise the
\* renegotiation flag and move the handshake states.
ReceiveRecords(st) ==
    /\ renegotiation_handshake' \in {renegotiation_handshake, TRUE}
    /\ sr_calls' = Append(sr_calls, SrCall("receive_records", wait_option,
                                           renegotiation_handshake,
                                           renegotiation_handshake', st))
    /\ client_state' \in ClientStates
    /\ server_state' \in ServerStates

\* Lines 275-291: is a renegotiation we started ourselves in flight?
SR_Enter ==
    /\ sr_pc = "start"
    /\ local_initiated_renegotiation' =
          \/ /\ socket_type = "NX_SECURE_TLS_SESSION_TYPE_CLIENT"
             /\ client_state = "NX_SECURE_TLS_CLIENT_STATE_RENEGOTIATING"
          \/ /\ socket_type = "NX_SECURE_TLS_SESSION_TYPE_SERVER"
             /\ server_state = "NX_SECURE_TLS_SERVER_STATE_HELLO_REQUEST"
    /\ sr_pc' = "receive_records"
    /\ UNCHANGED <<srFrame, client_state, server_state, renegotiation_handshake,
                   sr_status, sr_calls>>

\* SR_ReceiveRecords with the test of line 299 reduced to the flag: a fetch
\* that failed with the flag set starts the handshake all the same.
SR_ReceiveRecords_FlagOnly ==
    /\ sr_pc = "receive_records"
    /\ \E st \in FetchStatus :
          /\ ReceiveRecords(st)
          /\ sr_status' = st
          /\ sr_pc' = IF renegotiation_handshake' THEN "handshake"
                      ELSE IF st = NX_SECURE_TLS_POST_HANDSHAKE_RECEIVED
                      THEN "post_handshake"
                      ELSE "done"
    /\ UNCHANGED <<srFrame, local_initiated_renegotiation>>

\* Lines 294-299 and 324: the first fetch and the choice of what follows.
SR_ReceiveRecords ==
    /\ sr_pc = "receive_records"
    /\ \E st \in FetchStatus :
          /\ ReceiveRecords(st)
          /\ sr_status' = st
          /\ sr_pc' = IF st = NX_SUCCESS /\ renegotiation_handshake' THEN "handshake"
                      ELSE IF st = NX_SECURE_TLS_POST_HANDSHAKE_RECEIVED
                      THEN "post_handshake"
                      ELSE "done"
    /\ UNCHANGED <<srFrame, local_initiated_renegotiation>>

\* SR_HandshakeProcess without the return of lines 308-311: a failed
\* handshake is followed by what follows a successful one.
SR_HandshakeProcess_FailureIgnored ==
    /\ sr_pc = "handshake"
    /\ \E st \in HandshakeStatus :
          /\ renegotiation_handshake' \in BOOLEAN
          /\ sr_calls' = Append(sr_calls, SrCall("handshake_process", wait_option, FALSE,
                                                 renegotiation_handshake', st))
          /\ sr_status' = st
          /\ sr_pc' = IF ~local_initiated_renegotiation
                      THEN "receive_after_renegotiation"
                      ELSE "done"
    /\ client_state' \in ClientStates
    /\ server_state' \in ServerStates
    /\ UNCHANGED <<srFrame, local_initiated_renegotiation>>

\* SR_HandshakeProcess without the assignment of line 303: the handshake
\* process starts with the renegotiation flag still set.
SR_HandshakeProcess_FlagNotCleared ==
    /\ sr_pc = "handshake"
    /\ \E st \in HandshakeStatus :
          /\ renegotiation_handshake' \in BOOLEAN
          /\ sr_calls' = Append(sr_calls, SrCall("handshake_process", wait_option,
                                                 renegotiation_handshake,
                                                 renegotiation_handshake', st))
          /\ sr_status' = st
          /\ sr_pc' = IF st # NX_SUCCESS THEN "done"
                      ELSE IF ~local_initiated_renegotiation
                      THEN "receive_after_renegotiation"
                      ELSE "done"
    /\ client_state' \in ClientStates
    /\ server_state' \in ServerStates
    /\ UNCHANGED <<srFrame, local_initiated_renegotiation>>

\* SR_HandshakeProcess deciding who started the renegotiation at line 315,
\* from the session state of that moment, instead of using the flag computed
\* at entry.
SR_HandshakeProcess_LateDecision ==
    /\ sr_pc = "handshake"
    /\ \E st \in HandshakeStatus :
          /\ renegotiation_handshake' \in BOOLEAN
          /\ sr_calls' = Append(sr_calls, SrCall("handshake_process", wait_option, FALSE,
                                                 renegotiation_handshake', st))
          /\ sr_status' = st
          /\ sr_pc' = IF st # NX_SUCCESS THEN "done"
                      ELSE IF ~(\/ /\ socket_type = "NX_SECURE_TLS_SESSION_TYPE_CLIENT"
                                   /\ client_state = "NX_SECURE_TLS_CLIENT_STATE_RENEGOTIATING"
                                \/ /\ socket_type = "NX_SECURE_TLS_SESSION_TYPE_SERVER"
                                   /\ server_state = "NX_SECURE_TLS_SERVER_STATE_HELLO_REQUEST")
                      THEN "receive_after_renegotiation"
                      ELSE "done"
    /\ client_state' \in ClientStates
    /\ server_state' \in ServerStates
    /\ UNCHANGED <<srFrame, local_initiated_renegotiation>>

\* SR_HandshakeProcess with the test of line 315 dropped: the follow-up fetch
\* is made whoever started the renegotiation.
SR_HandshakeProcess_AlwaysFetch ==
    /\ sr_pc = "handshake"
    /\ \E st \in HandshakeStatus :
          /\ renegotiation_handshake' \in BOOLEAN
          /\ sr_calls' = Append(sr_calls, SrCall("handshake_process", wait_option, FALSE,
                                                 renegotiation_handshake', st))
          /\ sr_status' = st
          /\ sr_pc' = IF st # NX_SUCCESS THEN "done" ELSE "receive_after_renegotiation"
    /\ client_state' \in ClientStates
    /\ server_state' \in ServerStates
    /\ UNCHANGED <<srFrame, local_initiated_renegotiation>>

\* Lines 303-316: the flag is cleared, the handshake is processed, its
\* failure is returned; a renegotiation we started returns without a fetch.
SR_HandshakeProcess ==
    /\ sr_pc = "handshake"
    /\ \E st \in HandshakeStatus :
          /\ renegotiation_handshake' \in BOOLEAN
          /\ sr_calls' = Append(sr_calls, SrCall("handshake_process", wait_option, FALSE,
                                                 renegotiation_handshake', st))
          /\ sr_status' = st
          /\ sr_pc' = IF st # NX_SUCCESS THEN "done"
                      ELSE IF ~local_initiated_renegotiation
                      THEN "receive_after_renegotiation"
                      ELSE "done"
    /\ client_state' \in ClientStates
    /\ server_state' \in ServerStates
    /\ UNCHANGED <<srFrame, local_initiated_renegotiation>>

\* SR_ReceiveAfterRenegotiation treating its fetch like the first one: a
\* renegotiation flag raised again starts another handshake.
SR_ReceiveAfterRenegotiation_Reprocess ==
    /\ sr_pc = "receive_after_renegotiation"
    /\ \E st \in FetchStatus :
          /\ ReceiveRecords(st)
          /\ sr_status' = st
          /\ sr_pc' = IF st = NX_SUCCESS /\ renegotiation_handshake' THEN "handshake"
                      ELSE "done"
    /\ UNCHANGED <<srFrame, local_initiated_renegotiation>>

\* Line 318: the fetch that follows a renegotiation started by the peer.
SR_ReceiveAfterRenegotiation ==
    /\ sr_pc = "receive_after_renegotiation"
    /\ \E st \in FetchStatus :
          /\ ReceiveRecords(st)
          /\ SrReturn(st)
    /\ UNCHANGED <<srFrame, local_initiated_renegotiation>>

\* SR_ReceivePostHandshake with an empty loop body (a stray semicolon after
\* the while of line 327): the status is never fetched again.
SR_ReceivePostHandshake_EmptyBody ==
    /\ sr_pc = "post_handshake"
    /\ UNCHANGED <<srFrame, local_initiated_renegotiation, client_state, server_state,
                   renegotiation_handshake, sr_status, sr_calls, sr_pc>>

\* SR_ReceivePostHandshake with the while of line 327 written as an if: one
\* more fetch, whatever it returns.
SR_ReceivePostHandshake_Once ==
    /\ sr_pc = "post_handshake"
    /\ \E st \in FetchStatus :
          /\ ReceiveRecords(st)
          /\ SrReturn(st)
    /\ UNCHANGED <<srFrame, local_initiated_renegotiation>>

\* Lines 327-330: one turn of the post-handshake loop.
SR_ReceivePostHandshake ==
    /\ sr_pc = "post_handshake"
    /\ \E st \in FetchStatus :
          /\ ReceiveRecords(st)
          /\ sr_status' = st
          /\ sr_pc' = IF st = NX_SECURE_TLS_POST_HANDSHAKE_RECEIVED THEN "post_handshake"
                      ELSE "done"
    /\ UNCHANGED <<srFrame, local_initiated_renegotiation>>

NextReceive ==
    \/ SR_Enter
    \/ SR_ReceiveRecords
    \/ SR_HandshakeProcess
    \/ SR_ReceiveAfterRenegotiation
    \/ SR_ReceivePostHandshake

SpecReceive == InitReceive /\ [][NextReceive]_vars

\* The thread inside session receive keeps running: a step that can be
\* taken is taken.
SpecReceiveLive == SpecReceive /\ WF_vars(NextReceive)

(***************************************************************************)
(* Two sessions inside the RSA branch at once.  Each session is served by  *)
(* its own thread; the parsed-key sequence of lines 472-552 runs for each, *)
(* on the session's own key material and on the one file-scope scratch     *)
(* buffer.  The processor takes no lock; a thread can be preempted between *)
(* any two of its steps.                                                   *)
(***************************************************************************)
Sessions == {1, 2}

\* The declared length of both messages: the size of the scratch buffer, so
\* that every index of the padding step lies inside the buffer.
ConcurrentLength == PaddedPreMasterSize

\* The blocks a session's decrypt can produce: PKCS#1 type 2 with the
\* separator in place and a premaster of one repeated byte, or the same
\* with a wrong first byte.
DecryptedBlock(first, fill) ==
    [i \in 0..(PaddedPreMasterSize - 1) |->
        IF i = 0 THEN first
        ELSE IF i = 1 THEN 2
        ELSE IF i = ConcurrentLength - NX_SECURE_TLS_RSA_PREMASTER_SIZE - 1 THEN 0
        ELSE fill]

DecryptedBlocks == {DecryptedBlock(f, b) : f \in {0, 1}, b \in NonZeroBytes}

\* Lines 510-512 on a given block.
BlockPaddingValid(block) ==
    /\ block[0] = 0
    /\ block[1] = 2
    /\ block[ConcurrentLength - NX_SECURE_TLS_RSA_PREMASTER_SIZE - 1] = 0

\* The bytes line 539 copies out of a given block.
BlockTail(block) ==
    [i \in 0..(NX_SECURE_TLS_RSA_PREMASTER_SIZE - 1) |->
        block[ConcurrentLength - NX_SECURE_TLS_RSA_PREMASTER_SIZE + i]]

InitTwoSessions ==
    /\ KeyExchangeIdle
    /\ SessionReceiveIdle
    /\ client_state = "NX_SECURE_TLS_CLIENT_STATE_IDLE"
    /\ handshakes = [s \in Sessions |->
                        [pc |-> "rsa_decrypt", status |-> "none", block |-> <<>>,
                         pre_master_secret |-> ZeroBuffer(PreMasterSecretCapacity),
                         pre_master_secret_size |-> 0, pad_result |-> "none"]]

tsFrame == <<sessionVars, keInputs, srVars, client_state, pre_master_secret,
             pre_master_secret_size, pc, length, status, local_certificate, private_key,
             curve_method, calls, cert_lookups, reads, scratch_reads, pad_result>>

\* Lines 472-489 for session s: the provider writes the block into the
\* scratch buffer; a failure returns at once.
TS_RsaDecrypt(s) ==
    /\ handshakes[s].pc = "rsa_decrypt"
    /\ \E st \in ProviderStatus, block \in DecryptedBlocks :
          /\ padded_pre_master' = block
          /\ handshakes' = [handshakes EXCEPT
                               ![s].block = block,
                               ![s].status = IF st # NX_CRYPTO_SUCCESS THEN st ELSE @,
                               ![s].pc = IF st # NX_CRYPTO_SUCCESS THEN "done"
                                         ELSE "rsa_cleanup"]
    /\ UNCHANGED tsFrame

\* Lines 493-505 for session s.
TS_RsaCleanup(s) ==
    /\ handshakes[s].pc = "rsa_cleanup"
    /\ \E st \in ProviderStatus :
          IF st # NX_CRYPTO_SUCCESS
          THEN /\ padded_pre_master' = ZeroBuffer(PaddedPreMasterSize)
               /\ handshakes' = [handshakes EXCEPT ![s].status = st, ![s].pc = "done"]
          ELSE /\ handshakes' = [handshakes EXCEPT ![s].pc = "rsa_padding"]
               /\ UNCHANGED padded_pre_master
    /\ UNCHANGED tsFrame

\* Lines 510-541 for session s: the check and the copy read the scratch
\* buffer as it is now.
TS_RsaPadding(s) ==
    /\ handshakes[s].pc = "rsa_padding"
    /\ \E rand \in [0..(NX_SECURE_TLS_RSA_PREMASTER_SIZE - 1) -> NonZeroBytes] :
          LET valid == BlockPaddingValid(padded_pre_master)
              tail == BlockTail(padded_pre_master)
          IN handshakes' =
                [handshakes EXCEPT
                    ![s].pre_master_secret =
                        [i \in DOMAIN @ |->
                            IF i >= NX_SECURE_TLS_RSA_PREMASTER_SIZE THEN @[i]
                            ELSE IF valid THEN tail[i] ELSE rand[i]],
                    ![s].pre_master_secret_size = NX_SECURE_TLS_RSA_PREMASTER_SIZE,
                    ![s].pad_result = IF valid THEN "valid" ELSE "invalid",
                    ![s].pc = "finish"]
    /\ UNCHANGED <<tsFrame, padded_pre_master>>

\* Lines 550-560 for session s (server support enabled).
TS_Finish(s) ==
    /\ handshakes[s].pc = "finish"
    /\ padded_pre_master' = ZeroBuffer(PaddedPreMasterSize)
    /\ handshakes' = [handshakes EXCEPT ![s].status = NX_SUCCESS, ![s].pc = "done"]
    /\ UNCHANGED tsFrame

NextTwoSessions ==
    \E s \in Sessions :
        \/ TS_RsaDecrypt(s)
        \/ TS_RsaCleanup(s)
        \/ TS_RsaPadding(s)
        \/ TS_Finish(s)

SpecTwoSessions == InitTwoSessions /\ [][NextTwoSessions]_vars

(***************************************************************************)
(* Both operations: a behaviour is one call of the key-exchange processor  *)
(* (server role built in) or one call of session receive.                  *)
(***************************************************************************)
InitOperations == Init \/ InitReceive

NextOperations == Next \/ NextReceive

SpecOperations == InitOperations /\ [][NextOperations]_vars

(***************************************************************************)
(* Properties                                                              *)
(***************************************************************************)
Returned == pc = "done"

\* The branch the ciphersuite selects (lines 127, 166, 178, 325).
InEcdhBranch ==
    /\ ciphersuite # NX_NULL
    /\ PublicAuth.nx_crypto_algorithm \notin {"ECJPAKE", "PSK"}
    /\ PublicCipher.nx_crypto_algorithm \in {"ECDH", "ECDHE"}

InRsaBranch ==
    /\ ciphersuite # NX_NULL
    /\ PublicAuth.nx_crypto_algorithm \notin {"ECJPAKE", "PSK"}
    /\ PublicCipher.nx_crypto_algorithm \notin {"ECDH", "ECDHE"}

KeyMaterialAsAtEntry ==
    /\ pre_master_secret = entry.pre_master_secret
    /\ pre_master_secret_size = entry.pre_master_secret_size

OpNames == [i \in 1..Len(calls) |-> calls[i].op]

\* C1: in the ECDH/ECDHE branch (one-byte prefix) and in the RSA branch
\* (two-byte big-endian prefix), a declared length greater than the bytes
\* left after the prefix (message_length minus the prefix size) makes the
\* processor return NX_SECURE_TLS_INCORRECT_MESSAGE_LENGTH with no
\* certificate lookup, no provider call and no write to the key material.
C1_DeclaredLengthBeyondMessage ==
    (Returned /\ (InEcdhBranch \/ InRsaBranch)) =>
        LET prefix == IF InEcdhBranch THEN 1 ELSE 2
            declared == IF InEcdhBranch THEN packet_buffer[0]
                        ELSE BigEndian16(packet_buffer[0], packet_buffer[1])
        IN (message_length >= prefix /\ declared > message_length - prefix) =>
              /\ status = NX_SECURE_TLS_INCORRECT_MESSAGE_LENGTH
              /\ cert_lookups = 0
              /\ calls = <<>>
              /\ KeyMaterialAsAtEntry

\* C2: the scratch buffer, all-zero before the call, is all-zero at every
\* return of the processor, whatever the status returned.
C2_ScratchZeroAtReturn ==
    (Returned /\ entry.padded_pre_master = ZeroBuffer(PaddedPreMasterSize)) =>
        padded_pre_master = ZeroBuffer(PaddedPreMasterSize)

\* C3: when the RSA decryption has gone through and the block fails a
\* padding check, the processor returns no error: the premaster secret has
\* the RSA premaster size, every byte of it is non-zero, and the status
\* returned is the one a run with valid padding returns.
C3_InvalidPaddingAbsorbed ==
    /\ (Returned /\ pad_result # "none") => status = NX_SUCCESS
    /\ (Returned /\ pad_result = "invalid") =>
          /\ pre_master_secret_size = NX_SECURE_TLS_RSA_PREMASTER_SIZE
          /\ \A i \in 0..(NX_SECURE_TLS_RSA_PREMASTER_SIZE - 1) : pre_master_secret[i] # 0

\* C3 happens: a decrypt call succeeded, the padding was invalid, the
\* processor has returned.
C3_Witness ==
    /\ Returned
    /\ pad_result = "invalid"
    /\ \E i \in DOMAIN calls :
          calls[i].op = "NX_CRYPTO_DECRYPT" /\ calls[i].status = NX_CRYPTO_SUCCESS

\* C4: when the decrypted block passes the three padding checks, the
\* premaster secret is, byte for byte, the last RSA-premaster-size bytes of
\* the decrypted block (positions length - size .. length - 1 of it), and
\* the premaster size is the RSA premaster size.  Stated where the padding
\* step has just run and the block is still in the scratch buffer.
C4_ValidPaddingExtractsTail ==
    (pc = "finish" /\ pad_result = "valid") =>
        /\ pre_master_secret_size = NX_SECURE_TLS_RSA_PREMASTER_SIZE
        /\ \A i \in 0..(NX_SECURE_TLS_RSA_PREMASTER_SIZE - 1) :
              /\ SegmentIndex(i) \in DOMAIN padded_pre_master
              /\ pre_master_secret[i] = padded_pre_master[SegmentIndex(i)]

\* The provider calls of a completed RSA decrypt sequence, as the session's
\* ciphersuite and certificate fix them.
RsaOpNames ==
    LET cert == certificate_store
        m == PublicCipher
    IN IF cert.nx_secure_x509_private_key_type \in {"USER_DEFINED", "HARDWARE"}
       THEN <<cert.nx_secure_x509_private_key_type>>
       ELSE (IF m.nx_crypto_init THEN <<"nx_crypto_init">> ELSE <<>>)
            \o (IF ~m.nx_crypto_operation THEN <<>>
                ELSE (IF cert.nx_secure_rsa_private_prime_p
                         /\ cert.nx_secure_rsa_private_prime_q
                      THEN <<"NX_CRYPTO_SET_PRIME_P", "NX_CRYPTO_SET_PRIME_Q">>
                      ELSE <<>>)
                     \o <<"NX_CRYPTO_DECRYPT">>)
            \o (IF m.nx_crypto_cleanup THEN <<"nx_crypto_cleanup">> ELSE <<>>)

\* C5: two RSA runs from the same session and message that differ only in
\* what the decrypt left in the scratch buffer (valid padding in one,
\* invalid in the other) return the same status, record the same premaster
\* size and make the same provider calls: in every run that reaches the
\* padding check, whichever way the check goes, the three are the values
\* the session and the message alone determine.
C5_PaddingNotObservable ==
    (Returned /\ pad_result \in {"valid", "invalid"}) =>
        /\ status = NX_SUCCESS
        /\ pre_master_secret_size = NX_SECURE_TLS_RSA_PREMASTER_SIZE
        /\ OpNames = RsaOpNames
        /\ \A i \in DOMAIN calls :
              /\ calls[i].status = NX_CRYPTO_SUCCESS
              /\ calls[i].out = "padded_pre_master" =>
                    calls[i].in_off = 2 /\ calls[i].in_len = length

\* C5 happens: a run with valid padding; C3_Witness is its twin with
\* invalid padding.
C5_Witness ==
    /\ Returned
    /\ pad_result = "valid"
    /\ \E i \in DOMAIN calls :
          calls[i].op = "NX_CRYPTO_DECRYPT" /\ calls[i].status = NX_CRYPTO_SUCCESS

ReceiveReturned == sr_pc = "done"

\* Lines 277-289, evaluated on the session as it was at entry.
LocalAtEntry ==
    \/ /\ sr_entry.socket_type = "NX_SECURE_TLS_SESSION_TYPE_CLIENT"
       /\ sr_entry.client_state = "NX_SECURE_TLS_CLIENT_STATE_RENEGOTIATING"
    \/ /\ sr_entry.socket_type = "NX_SECURE_TLS_SESSION_TYPE_SERVER"
       /\ sr_entry.server_state = "NX_SECURE_TLS_SERVER_STATE_HELLO_REQUEST"

\* C6: when the first record fetch returns success with the renegotiation
\* flag set, the handshake is processed next; when that returns success, a
\* renegotiation started by the peer is followed by exactly one more record
\* fetch whose status is returned, and one started locally by no fetch at
\* all and a return of success.
C6_FetchAfterRemoteRenegotiation ==
    (/\ ReceiveReturned
     /\ sr_calls[1].status = NX_SUCCESS
     /\ sr_calls[1].flag_after) =>
        /\ Len(sr_calls) >= 2
        /\ sr_calls[2].fn = "handshake_process"
        /\ sr_calls[2].status = NX_SUCCESS =>
              IF LocalAtEntry
              THEN Len(sr_calls) = 2 /\ sr_status = NX_SUCCESS
              ELSE /\ Len(sr_calls) = 3
                   /\ sr_calls[3].fn = "receive_records"
                   /\ sr_status = sr_calls[3].status

\* C6 happens: a renegotiation started by the peer, a successful handshake,
\* and the follow-up fetch made.
C6_Witness ==
    /\ ReceiveReturned
    /\ ~LocalAtEntry
    /\ Len(sr_calls) = 3
    /\ sr_calls[2].fn = "handshake_process"
    /\ sr_calls[3].fn = "receive_records"

\* C7: when the first record fetch returns the post-handshake status, the
\* fetch is made again for each consecutive post-handshake status: k of them
\* followed by another status s are k + 1 fetches, s is returned and no
\* fetch follows s.
C7_PostHandshakeLoop ==
    (ReceiveReturned /\ sr_calls[1].status = NX_SECURE_TLS_POST_HANDSHAKE_RECEIVED) =>
        LET n == Len(sr_calls) IN
        /\ \A i \in 1..n : sr_calls[i].fn = "receive_records"
        /\ \A i \in 1..(n - 1) : sr_calls[i].status = NX_SECURE_TLS_POST_HANDSHAKE_RECEIVED
        /\ sr_calls[n].status # NX_SECURE_TLS_POST_HANDSHAKE_RECEIVED
        /\ n = PostHandshakeCount + 1
        /\ sr_status = sr_calls[n].status

\* C7 happens: three post-handshake statuses in a row, then another one.
C7_Witness ==
    /\ ReceiveReturned
    /\ Len(sr_calls) = 4
    /\ \A i \in 1..3 : sr_calls[i].status = NX_SECURE_TLS_POST_HANDSHAKE_RECEIVED

\* C8: whenever the processor returns NX_SECURE_TLS_UNSUPPORTED_PUBLIC_CIPHER
\* the premaster secret and its size are what they were at entry, for every
\* ciphersuite, the NULL ciphersuite included.
C8_UnsupportedCipherLeavesKeyMaterial ==
    (Returned /\ status = NX_SECURE_TLS_UNSUPPORTED_PUBLIC_CIPHER) => KeyMaterialAsAtEntry

\* C9: once NX_CRYPTO_DH_CALCULATE has succeeded, the premaster size is the
\* actual size the provider reported in the extended output, and the output
\* capacity offered to the provider was that of the premaster buffer.
C9_EcdhSizeIsReportedSize ==
    \A i \in DOMAIN calls :
        (calls[i].op = "NX_CRYPTO_DH_CALCULATE" /\ calls[i].status = NX_CRYPTO_SUCCESS) =>
            /\ pre_master_secret_size = calls[i].actual
            /\ calls[i].out = "pre_master_secret"
            /\ calls[i].out_cap = PreMasterSecretCapacity

\* C9 happens: the processor returned after a DH calculation that reported
\* less than the buffer holds.
C9_Witness ==
    /\ Returned
    /\ \E i \in DOMAIN calls :
          /\ calls[i].op = "NX_CRYPTO_DH_CALCULATE"
          /\ calls[i].status = NX_CRYPTO_SUCCESS
          /\ calls[i].actual < PreMasterSecretCapacity
          /\ calls[i].actual # entry.pre_master_secret_size

\* C10: with the ciphersuite unresolved the processor returns
\* NX_SECURE_TLS_UNKNOWN_CIPHERSUITE at once: no message byte read, no
\* provider call, no certificate lookup, no session field and no byte of
\* the scratch buffer changed.
C10_UnresolvedCiphersuite ==
    ciphersuite = NX_NULL =>
        /\ pc \in {"start", "done"}
        /\ pc = "done" => status = NX_SECURE_TLS_UNKNOWN_CIPHERSUITE
        /\ reads = {}
        /\ calls = <<>>
        /\ cert_lookups = 0
        /\ KeyMaterialAsAtEntry
        /\ padded_pre_master = entry.padded_pre_master
        /\ client_state = entry.client_state
        /\ local_certificate = NX_NULL

\* C10 happens: a call with the ciphersuite unresolved, key material of an
\* earlier exchange in place and a non-empty message, has returned.
C10_Witness ==
    /\ Returned
    /\ ciphersuite = NX_NULL
    /\ message_length > 0
    /\ entry.pre_master_secret_size > 0

\* The length the two-byte prefix of the message declares.
DeclaredRsaLength == BigEndian16(packet_buffer[0], packet_buffer[1])

NullCiphersuite ==
    /\ InRsaBranch
    /\ ciphersuite.nx_secure_tls_ciphersuite = "TLS_NULL_WITH_NULL_NULL"

\* C11: in every state of a key-exchange processor call, whatever the
\* branch, the message and the lengths it declares, the premaster size
\* recorded in the key material is at most the capacity of the premaster
\* secret buffer.
C11_PremasterSizeWithinCapacity ==
    pre_master_secret_size <= PreMasterSecretCapacity

\* C11 happens: the NULL ciphersuite with a declared length above the
\* capacity has been processed and the size recorded is the capacity.
C11_Witness ==
    /\ NullCiphersuite
    /\ pc = "rsa_certificate"
    /\ message_length >= 2
    /\ DeclaredRsaLength > PreMasterSecretCapacity
    /\ pre_master_secret_size = PreMasterSecretCapacity

\* C12: with the NULL ciphersuite and a well-formed message the processor
\* makes no certificate lookup, no decryption and no padding check; on
\* return the premaster secret is the first min(declared length, capacity)
\* payload bytes of the message and the premaster size is that count.
C12_NullCiphersuiteBypass ==
    (/\ Returned
     /\ NullCiphersuite
     /\ message_length >= 2
     /\ DeclaredRsaLength <= message_length - 2) =>
        LET copied == Min(DeclaredRsaLength, PreMasterSecretCapacity) IN
        /\ cert_lookups = 0
        /\ calls = <<>>
        /\ pad_result = "none"
        /\ pre_master_secret_size = copied
        /\ \A i \in 0..(copied - 1) : pre_master_secret[i] = packet_buffer[2 + i]

\* C13: in a build without server support a call that reaches the end of
\* processing sets the client state to the error state and returns
\* NX_SECURE_TLS_INVALID_STATE; no call returns NX_SUCCESS; a call that
\* fails earlier returns its own error and leaves the client state alone.
C13_ServerDisabledTerminal ==
    (Returned /\ server_disabled) =>
        /\ status # NX_SUCCESS
        /\ IF status = NX_SECURE_TLS_INVALID_STATE
           THEN client_state = "NX_SECURE_TLS_CLIENT_STATE_ERROR"
           ELSE client_state = entry.client_state
        /\ (pad_result # "none"
            \/ \E i \in DOMAIN calls :
                  /\ calls[i].op = "NX_CRYPTO_DH_CALCULATE"
                  /\ calls[i].status = NX_CRYPTO_SUCCESS
                  /\ ~PublicCipher.nx_crypto_cleanup) =>
              status = NX_SECURE_TLS_INVALID_STATE

\* C13 happens: a build without server support, an RSA exchange whose
\* decryption and padding step completed, the call returned.
C13_Witness ==
    /\ Returned
    /\ server_disabled
    /\ pad_result # "none"
    /\ status = NX_SECURE_TLS_INVALID_STATE
    /\ client_state = "NX_SECURE_TLS_CLIENT_STATE_ERROR"
    /\ entry.client_state # "NX_SECURE_TLS_CLIENT_STATE_ERROR"

\* C14: when the handshake process run for a renegotiation returns a status
\* other than success, session receive returns that status at once: the
\* handshake run is the last call it makes, whoever started the
\* renegotiation.
C14_HandshakeErrorReturned ==
    \A i \in DOMAIN sr_calls :
        (sr_calls[i].fn = "handshake_process" /\ sr_calls[i].status # NX_SUCCESS) =>
            /\ i = Len(sr_calls)
            /\ ReceiveReturned
            /\ sr_status = sr_calls[i].status

\* C14 happens: a renegotiation started by the peer, whose handshake failed.
C14_Witness ==
    /\ ReceiveReturned
    /\ ~LocalAtEntry
    /\ Len(sr_calls) = 2
    /\ sr_calls[2].fn = "handshake_process"
    /\ sr_calls[2].status = NX_SECURE_TLS_HANDSHAKE_FAILURE
    /\ sr_status = NX_SECURE_TLS_HANDSHAKE_FAILURE

\* C15: when a provider call (init, curve set, key pair import, DH
\* calculate, set prime P, set prime Q, decrypt, ECJPAKE exchange, cleanup)
\* or the PSK premaster routine returns a status other than success, the
\* processor returns exactly that status and the failed call is the last
\* one it makes.
C15_ProviderErrorReturned ==
    \A i \in DOMAIN calls :
        calls[i].status # NX_CRYPTO_SUCCESS =>
            /\ i = Len(calls)
            /\ Returned
            /\ status = calls[i].status

\* C15 happens: the ECDH sequence got as far as the DH calculation, which
\* failed with the second provider error.
C15_Witness ==
    /\ Returned
    /\ Len(calls) >= 3
    /\ calls[Len(calls)].op = "NX_CRYPTO_DH_CALCULATE"
    /\ calls[Len(calls)].status = NX_CRYPTO_INVALID_KEY
    /\ status = NX_CRYPTO_INVALID_KEY

\* Errors the branch can meet before it needs the operate routine.
ErrorsBeforeOperate ==
    {NX_SECURE_TLS_INCORRECT_MESSAGE_LENGTH, NX_SECURE_TLS_CERTIFICATE_NOT_FOUND,
     NX_SECURE_TLS_UNSUPPORTED_ECC_CURVE, NX_SECURE_TLS_UNSUPPORTED_PUBLIC_CIPHER,
     NX_CRYPTO_NOT_SUCCESSFUL, NX_CRYPTO_INVALID_KEY}

\* C17: when the public-cipher method has no operate routine, a call in the
\* ECDH/ECDHE branch or in the RSA branch never returns success: unless an
\* earlier error ends it, it returns NX_SECURE_TLS_MISSING_CRYPTO_ROUTINE.
C17_MissingOperateRoutine ==
    (/\ Returned
     /\ InEcdhBranch \/ InRsaBranch
     /\ ~PublicCipher.nx_crypto_operation) =>
        /\ status # NX_SUCCESS
        /\ status \in ErrorsBeforeOperate \cup {NX_SECURE_TLS_MISSING_CRYPTO_ROUTINE}

\* C18: the processor reads no message byte at an offset at or beyond
\* message_length, and hands no provider an input range of the message that
\* ends beyond offset message_length.
C18_NoReadBeyondMessage ==
    /\ \A r \in reads : r < message_length
    /\ \A i \in DOMAIN calls :
          calls[i].in_len > 0 => calls[i].in_off + calls[i].in_len <= message_length

\* C19: session receive never returns NX_SECURE_TLS_POST_HANDSHAKE_RECEIVED
\* to its caller, on any path.
C19_PostHandshakeNeverReturned ==
    ReceiveReturned => sr_status # NX_SECURE_TLS_POST_HANDSHAKE_RECEIVED

\* C20: when the renegotiation branch is taken, the renegotiation flag is
\* false when the handshake process starts, although the fetch before it
\* left it set; and the flag only ever has the value the last external call
\* (record fetch or handshake process) left: session receive never sets it.
C20_FlagClearedBeforeHandshake ==
    /\ \A i \in DOMAIN sr_calls :
          sr_calls[i].fn = "handshake_process" =>
              /\ i > 1
              /\ sr_calls[i - 1].flag_after
              /\ ~sr_calls[i].flag_before
    /\ sr_calls # <<>> => renegotiation_handshake = sr_calls[Len(sr_calls)].flag_after

\* C20 happens: the handshake process has run after a fetch that raised the
\* flag, which was clear at entry.
C20_Witness ==
    /\ Len(sr_calls) >= 2
    /\ ~sr_entry.renegotiation_handshake
    /\ sr_calls[1].flag_after
    /\ sr_calls[2].fn = "handshake_process"
    /\ ~sr_calls[2].flag_before

\* C16: with two sessions inside the RSA branch and their steps
\* interleaved, from a session's decrypt to its padding check the scratch
\* buffer holds the block that session's own decrypt wrote (no other
\* session writes or zeroes it), and the session's padding verdict and
\* premaster secret are those of its own block.
C16_ScratchNotSharedAcrossSessions ==
    \A s \in DOMAIN handshakes :
        LET h == handshakes[s] IN
        /\ h.pc \in {"rsa_cleanup", "rsa_padding"} => padded_pre_master = h.block
        /\ h.pad_result # "none" =>
              /\ (h.pad_result = "valid") <=> BlockPaddingValid(h.block)
              /\ h.pad_result = "valid" =>
                    \A i \in 0..(NX_SECURE_TLS_RSA_PREMASTER_SIZE - 1) :
                        h.pre_master_secret[i] = BlockTail(h.block)[i]

\* Lines 277-289 evaluated on the session as it is now.
LocalNow ==
    \/ /\ socket_type = "NX_SECURE_TLS_SESSION_TYPE_CLIENT"
       /\ client_state = "NX_SECURE_TLS_CLIENT_STATE_RENEGOTIATING"
    \/ /\ socket_type = "NX_SECURE_TLS_SESSION_TYPE_SERVER"
       /\ server_state = "NX_SECURE_TLS_SERVER_STATE_HELLO_REQUEST"

\* C21: whether the renegotiation is locally initiated is decided once,
\* before the first record fetch: from then on the decision is (client and
\* client state renegotiating) or (server and server state hello request),
\* taken on the session state at entry, and it is that decision, not the
\* state the fetch or the handshake process left, that chooses between the
\* follow-up fetch and the return after a successful handshake.
C21_LocalInitiatedDecidedAtEntry ==
    /\ sr_pc \notin {"not_called", "start"} => local_initiated_renegotiation = LocalAtEntry
    /\ (/\ ReceiveReturned
        /\ Len(sr_calls) >= 2
        /\ sr_calls[2].fn = "handshake_process"
        /\ sr_calls[2].status = NX_SUCCESS) =>
           (LocalAtEntry <=> Len(sr_calls) = 2)

\* C21 happens: locally initiated at entry, no longer so by the session
\* state at return, and the call returned after the handshake without a
\* follow-up fetch.
C21_Witness ==
    /\ ReceiveReturned
    /\ LocalAtEntry
    /\ ~LocalNow
    /\ Len(sr_calls) = 2
    /\ sr_calls[2].fn = "handshake_process"
    /\ sr_calls[2].status = NX_SUCCESS

\* C22: every record fetch and the handshake process of one session receive
\* call are handed the caller's wait option as it was passed in: the first
\* fetch, each turn of the post-handshake loop, the handshake process and
\* the follow-up fetch all get the same, whole budget.
C22_WaitOptionPassedUnchanged ==
    \A i \in DOMAIN sr_calls : sr_calls[i].wait = wait_option

\* C22 happens: a caller waiting forever, and a call that went through the
\* handshake process and the follow-up fetch.
C22_Witness ==
    /\ ReceiveReturned
    /\ wait_option = "NX_WAIT_FOREVER"
    /\ Len(sr_calls) = 3
    /\ sr_calls[2].fn = "handshake_process"
    /\ sr_calls[3].wait = "NX_WAIT_FOREVER"

\* C23: every call of session receive returns, given that each record fetch
\* and the handshake process return and that the record layer hands back
\* only a bounded run of post-handshake statuses.
C23_SessionReceiveReturns == <>ReceiveReturned

\* C23 happens: a call that returned after the longest run of
\* post-handshake statuses.
C23_Witness ==
    /\ ReceiveReturned
    /\ PostHandshakeCount = MaxPostHandshake
    /\ sr_calls[1].status = NX_SECURE_TLS_POST_HANDSHAKE_RECEIVED

IsPrefix(s, t) ==
    /\ Len(s) <= Len(t)
    /\ \A i \in 1..Len(s) : s[i] = t[i]

\* The provider calls of a completed ECDH/ECDHE exchange (lines 254-321).
EcdhOpNames ==
    (IF PublicCipher.nx_crypto_init THEN <<"nx_crypto_init">> ELSE <<>>)
    \o <<"NX_CRYPTO_EC_CURVE_SET", "NX_CRYPTO_DH_KEY_PAIR_IMPORT", "NX_CRYPTO_DH_CALCULATE">>
    \o (IF PublicCipher.nx_crypto_cleanup THEN <<"nx_crypto_cleanup">> ELSE <<>>)

\* C24: in the ECDH/ECDHE branch the provider calls made so far are always
\* the beginning of: init (if present), curve set, key pair import, DH
\* calculate, cleanup (if present), each made only after the one before it
\* returned success; and the premaster size is written only once DH
\* calculate has succeeded.
C24_EcdhCallOrder ==
    InEcdhBranch =>
        /\ IsPrefix(OpNames, EcdhOpNames)
        /\ \A i \in 1..(Len(calls) - 1) : calls[i].status = NX_CRYPTO_SUCCESS
        /\ (\A i \in DOMAIN calls :
               ~(calls[i].op = "NX_CRYPTO_DH_CALCULATE"
                 /\ calls[i].status = NX_CRYPTO_SUCCESS)) =>
              pre_master_secret_size = entry.pre_master_secret_size
        /\ (Returned /\ status = NX_SUCCESS) => OpNames = EcdhOpNames

\* C24 happens: a complete ECDH exchange with init and cleanup present.
C24_Witness ==
    /\ Returned
    /\ InEcdhBranch
    /\ status = NX_SUCCESS
    /\ Len(calls) = 5
    /\ pre_master_secret_size # entry.pre_master_secret_size

\* The RSA branch has reached its decrypt sequence with a parsed key.
ParsedKeySequence ==
    /\ InRsaBranch
    /\ local_certificate # NX_NULL
    /\ PublicCipher.nx_crypto_algorithm = "RSA"
    /\ local_certificate.nx_secure_x509_public_algorithm = "RSA"
    /\ local_certificate.nx_secure_x509_private_key_type \notin {"USER_DEFINED", "HARDWARE"}

\* The order the parsed-key sequence is to follow.
ParsedKeyOpNames ==
    (IF PublicCipher.nx_crypto_init THEN <<"nx_crypto_init">> ELSE <<>>)
    \o (IF local_certificate.nx_secure_rsa_private_prime_p
           /\ local_certificate.nx_secure_rsa_private_prime_q
        THEN <<"NX_CRYPTO_SET_PRIME_P", "NX_CRYPTO_SET_PRIME_Q">>
        ELSE <<>>)
    \o <<"NX_CRYPTO_DECRYPT">>
    \o (IF PublicCipher.nx_crypto_cleanup THEN <<"nx_crypto_cleanup">> ELSE <<>>)

\* C25: in the RSA branch with a parsed key the provider calls made so far
\* are always the beginning of: init with the public modulus (if present),
\* set prime P then set prime Q (only when both primes are present), decrypt
\* into the scratch buffer, cleanup (if present), each made after the one
\* before it succeeded; and the padding check runs only after the decrypt
\* and the cleanup have succeeded.
C25_RsaParsedKeyCallOrder ==
    ParsedKeySequence =>
        /\ IsPrefix(OpNames, ParsedKeyOpNames)
        /\ \A i \in 1..(Len(calls) - 1) : calls[i].status = NX_CRYPTO_SUCCESS
        /\ \A i \in DOMAIN calls :
              /\ calls[i].op = "nx_crypto_init" => calls[i].key = "rsa_public_modulus"
              /\ calls[i].op = "NX_CRYPTO_DECRYPT" => calls[i].out = "padded_pre_master"
        /\ pad_result # "none" =>
              /\ OpNames = ParsedKeyOpNames
              /\ \A i \in DOMAIN calls : calls[i].status = NX_CRYPTO_SUCCESS

\* The RSA branch has reached its decrypt sequence with an opaque key.
OpaqueKeySequence ==
    /\ InRsaBranch
    /\ local_certificate # NX_NULL
    /\ PublicCipher.nx_crypto_algorithm = "RSA"
    /\ local_certificate.nx_secure_x509_public_algorithm = "RSA"
    /\ local_certificate.nx_secure_x509_private_key_type \in {"USER_DEFINED", "HARDWARE"}

\* C26: with an opaque private key (user-defined or hardware) the RSA
\* branch makes exactly one provider call, an operate call with the key
\* type as opcode and the scratch buffer as output, and no init, set prime
\* or cleanup call; with any other key no call carries a key type as
\* opcode.
C26_OpaqueKeySingleCall ==
    /\ OpaqueKeySequence =>
          /\ Len(calls) <= 1
          /\ \A i \in DOMAIN calls :
                /\ calls[i].op = local_certificate.nx_secure_x509_private_key_type
                /\ calls[i].key = "user_key"
                /\ calls[i].out = "padded_pre_master"
                /\ calls[i].out_cap = PaddedPreMasterSize
          /\ pc \in {"rsa_padding", "finish", "done"} => Len(calls) = 1
    /\ ParsedKeySequence =>
          \A i \in DOMAIN calls : calls[i].op \notin {"USER_DEFINED", "HARDWARE"}

\* C26 happens: a hardware key, its one operate call succeeded, the call
\* returned through the padding step.
C26_Witness ==
    /\ Returned
    /\ OpaqueKeySequence
    /\ local_certificate.nx_secure_x509_private_key_type = "HARDWARE"
    /\ pad_result # "none"
    /\ Len(calls) = 1
    /\ calls[1].status = NX_CRYPTO_SUCCESS

\* The certificate the non-ephemeral ECDH exchange works with (lines
\* 191-205): the active one, else the default entry of the store.
EcdhCertificate ==
    IF active_certificate # NX_NULL THEN active_certificate ELSE certificate_store

\* C27: in the ECDH/ECDHE branch the named curve set and the private key
\* imported into the provider are those of the local certificate for
\* non-ephemeral ECDH (with the certificate-not-found error and no provider
\* call when there is no certificate), and those of the ephemeral
\* key-exchange state for ECDHE, which looks no certificate up; when the
\* curve lookup finds no curve method the unsupported-curve error is
\* returned before any provider call.
C27_EcdhKeyAndCurveSource ==
    InEcdhBranch =>
        LET ecdh == PublicCipher.nx_crypto_algorithm = "ECDH" IN
        /\ \A i \in DOMAIN calls :
              /\ calls[i].op = "NX_CRYPTO_EC_CURVE_SET" =>
                    calls[i].key = IF ecdh THEN EcdhCertificate.nx_secure_ec_named_curve
                                   ELSE ecdhe_data.nx_secure_tls_ecdhe_named_curve
              /\ calls[i].op = "NX_CRYPTO_DH_KEY_PAIR_IMPORT" =>
                    calls[i].key = IF ecdh THEN EcdhCertificate.name
                                   ELSE ecdhe_data.nx_secure_tls_ecdhe_private_key
        /\ ~ecdh => cert_lookups = 0 /\ local_certificate = NX_NULL
        /\ (ecdh /\ EcdhCertificate = NX_NULL) =>
              /\ calls = <<>>
              /\ Returned => status \in {NX_SECURE_TLS_INCORRECT_MESSAGE_LENGTH,
                                         NX_SECURE_TLS_CERTIFICATE_NOT_FOUND}
        /\ status = NX_SECURE_TLS_UNSUPPORTED_ECC_CURVE => calls = <<>>

\* C27 happens: a non-ephemeral exchange imported the key of the session's
\* certificate.
C27_Witness ==
    /\ Returned
    /\ InEcdhBranch
    /\ PublicCipher.nx_crypto_algorithm = "ECDH"
    /\ \E i \in DOMAIN calls :
          /\ calls[i].op = "NX_CRYPTO_DH_KEY_PAIR_IMPORT"
          /\ calls[i].key = EcdhCertificate.name
          /\ calls[i].status = NX_CRYPTO_SUCCESS

\* C28: every scratch buffer position the padding check and the extraction
\* read (0, 1, length - 48 - 1 and length - 48 .. length - 1) lies inside
\* the scratch buffer, for every declared length that passed the length
\* check.
C28_ScratchReadsInBounds ==
    \A r \in scratch_reads : r >= 0 /\ r < PaddedPreMasterSize

\* C29: whenever session receive returns success the renegotiation flag
\* is clear: a flag raised by any record fetch of the call has been
\* processed.
C29_NoPendingRenegotiationOnSuccess ==
    (ReceiveReturned /\ sr_status = NX_SUCCESS) => ~renegotiation_handshake

HandshakeRuns == {i \in DOMAIN sr_calls : sr_calls[i].fn = "handshake_process"}
RecordFetches == {i \in DOMAIN sr_calls : sr_calls[i].fn = "receive_records"}

\* C30: one session receive call runs the handshake process at most once,
\* and when it has run it the call makes at most two record fetches, even
\* when the follow-up fetch raises the renegotiation flag again.
C30_HandshakeAtMostOnce ==
    /\ Cardinality(HandshakeRuns) <= 1
    /\ HandshakeRuns # {} => Cardinality(RecordFetches) <= 2

\* C30 happens: the follow-up fetch returned success with the flag raised
\* again, and the call returned.
C30_Witness ==
    /\ ReceiveReturned
    /\ Len(sr_calls) = 3
    /\ sr_calls[2].fn = "handshake_process"
    /\ sr_calls[3].status = NX_SUCCESS
    /\ sr_calls[3].flag_after


\* The first fetch failed: neither success nor a post-handshake message.
FirstFetchFailed ==
    /\ sr_calls # <<>>
    /\ sr_calls[1].status \notin {NX_SUCCESS, NX_SECURE_TLS_POST_HANDSHAKE_RECEIVED}

\* C31: when the first record fetch returns a status that is neither
\* success nor the post-handshake status, session receive returns that
\* status at once: no handshake run, no further fetch, and the
\* renegotiation flag is as the fetch left it, set or not.
C31_FirstFetchErrorReturned ==
    FirstFetchFailed =>
        /\ ReceiveReturned
        /\ Len(sr_calls) = 1
        /\ sr_status = sr_calls[1].status
        /\ renegotiation_handshake = sr_calls[1].flag_after

\* C31 happens: the first fetch failed and left the flag set.
C31_Witness ==
    /\ ReceiveReturned
    /\ FirstFetchFailed
    /\ sr_calls[1].flag_after
    /\ renegotiation_handshake


\* C32: with the server role built in, a return with any status other than
\* success leaves the recorded premaster length at its value at entry, in
\* every branch.
C32_ErrorKeepsPremasterSize ==
    (Returned /\ status # NX_SUCCESS) =>
        pre_master_secret_size = entry.pre_master_secret_size


\* C33: when the processor returns, every provider init call that
\* succeeded has a cleanup call after it whenever the method has a cleanup
\* routine, on error returns as on success (ECDH/ECDHE and RSA parsed-key
\* branches).
C33_InitFollowedByCleanup ==
    Returned =>
        \A i \in DOMAIN calls :
            (/\ calls[i].op = "nx_crypto_init"
             /\ calls[i].status = NX_CRYPTO_SUCCESS
             /\ PublicCipher.nx_crypto_cleanup)
            => \E j \in DOMAIN calls : j > i /\ calls[j].op = "nx_crypto_cleanup"


\* C34: when the session has an active local certificate, the certificate
\* whose private key the processor works with is that one, in the
\* non-ephemeral ECDH branch and in the RSA branch alike; the default entry
\* of the certificate store is looked up only when no active certificate
\* is set.
C34_ActiveCertificateUsed ==
    /\ (active_certificate # NX_NULL /\ local_certificate # NX_NULL) =>
          local_certificate = active_certificate
    /\ cert_lookups > 0 => active_certificate = NX_NULL


\* C35: neither operation writes session fields outside its job.  The
\* role, the ciphersuite, the certificate references and the ephemeral
\* key-exchange state never change.  The key-exchange processor (server
\* role built in) leaves the handshake states and the renegotiation flag
\* alone: it writes the premaster secret, its length and the scratch
\* buffer only.  Session receive leaves the key material alone; the
\* handshake states change only in a step that calls the record layer or
\* the handshake process, and the flag a record fetch starts with is the
\* flag as it was: the one write of session receive itself is the clearing
\* of the flag in front of the handshake process.
C35_OperationsWriteOnlyTheirFields ==
    [][/\ UNCHANGED <<server_disabled, socket_type, ciphersuite, active_certificate,
                      certificate_store, ecdhe_data>>
       /\ pc # "not_called" =>
             UNCHANGED <<client_state, server_state, renegotiation_handshake>>
       /\ sr_pc # "not_called" =>
             /\ UNCHANGED <<pre_master_secret, pre_master_secret_size, padded_pre_master>>
             /\ IF sr_calls' = sr_calls
                THEN UNCHANGED <<client_state, server_state, renegotiation_handshake>>
                ELSE LET c == sr_calls'[Len(sr_calls')] IN
                     c.flag_before = IF c.fn = "handshake_process" THEN FALSE
                                     ELSE renegotiation_handshake
      ]_vars

\* C35 happens: session receive returned after a handshake run and a
\* follow-up fetch, both of which moved the handshake states, and the role
\* is the one the call started with.
C35_Witness ==
    /\ ReceiveReturned
    /\ Len(sr_calls) = 3
    /\ sr_calls[2].fn = "handshake_process"
    /\ socket_type = sr_entry.socket_type
    /\ client_state # sr_entry.client_state
    /\ server_state # sr_entry.server_state

====
